---- MODULE Spec2Model ----
(***************************************************************************)
(* Seat-reservation coordination of the event-booking platform.            *)
(*                                                                         *)
(* The specifications share the breaker operators:                         *)
(*   SpecBreaker  - one circuit breaker called by concurrent callers, for  *)
(*                  each of the three implementations in the repository    *)
(*                  (booking/app/main.py, shared/circuit_breaker.py,       *)
(*                  payment/shared/circuit_breaker.py);                    *)
(*   SpecBooking  - the seat ledger: create_booking and confirm_booking    *)
(*                  of booking/app/main.py, cancel_booking of              *)
(*                  booking/app/main_enhanced.py, run by two processes     *)
(*                  over the shared Redis counter and the bookings table;  *)
(*   SpecLookup   - the catalog lookup of create_booking: retry_async      *)
(*                  inside the catalog breaker of one process, with time;  *)
(*   SpecRetry    - one call of retry_async, for each of the two           *)
(*                  implementations (booking/app/main.py,                  *)
(*                  shared/circuit_breaker.py);                            *)
(*   SpecEnhanced - create_booking and cancel_booking of                   *)
(*                  booking/app/main_enhanced.py behind their payment-     *)
(*                  style breakers, in one or two processes;               *)
(*   SpecGuarded  - create_booking of booking/app/main.py behind its      *)
(*                  get_current_user, both through retry_async inside a    *)
(*                  breaker, in one process;                               *)
(*   SpecAuth     - get_current_user of booking/app/main.py,               *)
(*                  booking/app/main_enhanced.py and                       *)
(*                  payment/app/main_enhanced.py, for each kind of token;  *)
(*   SpecResources- bookings of several events through the one catalog     *)
(*                  breaker of booking/app/main.py;                        *)
(*   SpecRecovery - one breaker of each implementation over a dependency   *)
(*                  that stops failing, with fair scheduling;              *)
(*   SpecNarrow   - one payment breaker whose expected_exception is        *)
(*                  narrower than Exception;                               *)
(*   SpecPermanent- one payment breaker with a max_failures that its       *)
(*                  callers reach;                                         *)
(*   SpecPayment  - process_payment of payment/app/main.py and              *)
(*                  confirm_booking of booking/app/main.py;                *)
(*   SpecRateLimit- rate_limit_check of catalog/shared/shared/security.py  *)
(*                  for one client and endpoint;                           *)
(*   SpecRegistry - get_circuit_breaker and reset_all_circuit_breakers of  *)
(*                  payment/shared/circuit_breaker.py;                     *)
(*   SpecWorker   - the booking-events topic, the consumer loop of         *)
(*                  auth/shared/kafka_client.py and the booking handlers   *)
(*                  of worker/app/main.py.                                 *)
(***************************************************************************)
EXTENDS Integers, Sequences, FiniteSets, TLC

\* ------------------------------------------------------------------ bounds
\* Clock horizon: time.time() is read as an integer tick in 1..MaxTime.
MaxTime == 3
\* Recovery timeout of every modelled breaker, in clock ticks.
RecoveryTimeout == 1
\* Calls started on the breaker of SpecBreaker.
MaxCalls == 7
\* Capacity of the event, as the catalog returns it.
Capacity == 10
\* Booking requests started in SpecLookup.
MaxRequests == 4
\* cancel_booking calls in SpecBooking.
MaxCancels == 2
\* Booking requests started in SpecBooking.
LedgerRequests == 2
\* max_attempts, base_delay and the lower max_delay of the retry configs
\* of SpecRetry; the fractions at which the jitter is read.
MaxRetryAttempts == 7
MaxBaseDelay == 2
RetryMaxDelayLow == 3
JitterSteps == 2
\* SpecEnhanced: requests served by the one process of the long run, and by
\* the two processes of the concurrent run.
MaxEnhancedRequests == 6
ConcurrentRequests == 3
\* SpecGuarded: calls through each of the two breakers of main.py.
GuardedCalls == 4
\* SpecResources: booking requests over all events.
MaxResourceCalls == 5
\* SpecRateLimit: rate_limit_window and max_requests_per_window, scaled to
\* the clock horizon, and the requests of the client.
RateLimitWindow == 2
MaxRequestsPerWindow == 2
MaxRateCalls == 6
\* SpecPayment: payments recorded, and bookings pending at the start.
MaxPayments == 3
PendingBookings == 2
\* SpecPermanent: max_failures of the breaker's configuration.
ConfiguredMaxFailures == 4
\* SpecRegistry: calls of get_circuit_breaker, and failures per breaker.
MaxRegistryCalls == 3
\* SpecAuth: calls of get_current_user.
MaxAuthCalls == 5
\* SpecWorker: records on the topic, booking ids, consumer restarts and
\* handler calls made outside the consumer loop.
MaxEvents == 2
MaxEventIds == 1
MaxRestarts == 2
MaxDirect == 2

\* -------------------------------------------------------- program constants
\* failure_threshold of the breakers the booking service constructs.
FailureThreshold == 3
\* success_threshold of the booking-db breaker.
SuccessThreshold == 2
\* CircuitBreakerConfig.max_failures.
MaxFailures == 100
\* last_failure_time = None.
None == -1

\* RetryConfig(max_attempts=3) of the catalog lookup.
MaxAttempts == 3
\* RetryConfig.exponential_base and RetryConfig.max_delay of shared.
ExponentialBase == 2
\* main_enhanced.py: catalog-service breaker.
CatalogFailureThreshold == 5
CatalogSuccessThreshold == 3
RetryMaxDelay == 60

Impls == {"simple", "shared", "payment"}
Callers == {1, 2}
\* Booking-service processes, each with its own event loop and its own
\* catalog_circuit_breaker; each request slot is served by one of them.
Instances == {1, 2}
Slots == {1, 2}
\* req.seats of a booking request.
SeatChoices == {3, 6}
\* req.seats of every request of SpecLookup.
LookupSeats == 3

\* ------------------------------------------------------- breaker: state
\* CircuitBreaker.__init__ of the three implementations: closed, counters 0,
\* no failure time; the metrics exist only in the payment implementation.
\* expected_exception is "Exception", the default, or "narrow" for a
\* subclass of it that the wrapped function's exceptions need not belong to.
NewBreaker ==
  [state |-> "closed", failure_count |-> 0, success_count |-> 0,
   last_failure_time |-> None,
   failure_threshold |-> FailureThreshold,
   success_threshold |-> SuccessThreshold,
   timeout |-> RecoveryTimeout, max_failures |-> MaxFailures,
   total_calls |-> 0, successful_calls |-> 0, failed_calls |-> 0,
   circuit_opens |-> 0, expected_exception |-> "Exception"]

\* ------------------------------------------- breaker: recovery-time test
\* main.py:32   time.time() - self.last_failure_time > self.recovery_timeout
simple_should_attempt_reset(b, t) ==
  t - b.last_failure_time > b.timeout

\* shared: self.last_failure_time and time.time() - ... >= recovery_timeout
\* (None and 0.0 are falsy).
shared_should_attempt_reset(b, t) ==
  /\ b.last_failure_time # None
  /\ b.last_failure_time # 0
  /\ t - b.last_failure_time >= b.timeout

\* payment: None -> True, else time.time() - last_failure_time >= timeout
payment_should_attempt_reset(b, t) ==
  IF b.last_failure_time = None THEN TRUE
  ELSE t - b.last_failure_time >= b.timeout

should_attempt_reset(i, b, t) ==
  CASE i = "simple" -> simple_should_attempt_reset(b, t)
    [] i = "shared" -> shared_should_attempt_reset(b, t)
    [] OTHER -> payment_should_attempt_reset(b, t)

\* ------------------------------------------------ breaker: entry of call()
\* Whether call() goes on to invoke the wrapped function.
admits(i, b, t) ==
  b.state # "open" \/ should_attempt_reset(i, b, t)

\* The breaker after the entry of call(): open and due -> half_open; the
\* payment implementation also counts the call and, when it rejects, a
\* failed call.
\* simple_gate without the move to half_open.
simple_gate_staying_open(b, t) == b

simple_gate(b, t) ==
  IF b.state = "open" /\ simple_should_attempt_reset(b, t)
  THEN [b EXCEPT !.state = "half_open"]
  ELSE b

shared_gate(b, t) ==
  IF b.state = "open" /\ shared_should_attempt_reset(b, t)
  THEN [b EXCEPT !.state = "half_open"]
  ELSE b

\* payment_gate with a rejected call also counted in failure_count.
payment_gate_counting_rejections(b, t) ==
  LET b1 == [b EXCEPT !.total_calls = @ + 1]
  IN IF b.state = "open"
     THEN IF payment_should_attempt_reset(b, t)
          THEN [b1 EXCEPT !.state = "half_open", !.success_count = 0]
          ELSE [b1 EXCEPT !.failed_calls = @ + 1, !.failure_count = @ + 1]
     ELSE b1

payment_gate(b, t) ==
  LET b1 == [b EXCEPT !.total_calls = @ + 1]
  IN IF b.state = "open"
     THEN IF payment_should_attempt_reset(b, t)
          THEN [b1 EXCEPT !.state = "half_open", !.success_count = 0]
          ELSE [b1 EXCEPT !.failed_calls = @ + 1]
     ELSE b1

gate(i, b, t) ==
  CASE i = "simple" -> simple_gate(b, t)
    [] i = "shared" -> shared_gate(b, t)
    [] OTHER -> payment_gate(b, t)

\* ---------------------------------------------------- breaker: on success
\* main.py:39-41: only a half-open breaker reacts to a success.
simple_on_success(b) ==
  IF b.state = "half_open"
  THEN [b EXCEPT !.state = "closed", !.failure_count = 0]
  ELSE b

\* shared_on_success without the reset of failure_count.
shared_on_success_keeping_count(b) ==
  [b EXCEPT !.state = "closed"]

\* shared _on_success, lines 50-52: unconditional.
shared_on_success(b) ==
  [b EXCEPT !.failure_count = 0, !.state = "closed"]

\* payment_on_success with the threshold test strict.
payment_on_success_strict(b) ==
  LET b1 == [b EXCEPT !.successful_calls = @ + 1]
  IN IF b.state = "half_open"
     THEN IF b.success_count + 1 > b.success_threshold
          THEN [b1 EXCEPT !.state = "closed", !.failure_count = 0,
                          !.success_count = 0]
          ELSE [b1 EXCEPT !.success_count = @ + 1]
     ELSE IF b.state = "closed"
          THEN [b1 EXCEPT !.failure_count = 0]
          ELSE b1

\* payment _on_success, lines 89-102.
payment_on_success(b) ==
  LET b1 == [b EXCEPT !.successful_calls = @ + 1]
  IN IF b.state = "half_open"
     THEN IF b.success_count + 1 >= b.success_threshold
          THEN [b1 EXCEPT !.state = "closed", !.failure_count = 0,
                          !.success_count = 0]
          ELSE [b1 EXCEPT !.success_count = @ + 1]
     ELSE IF b.state = "closed"
          THEN [b1 EXCEPT !.failure_count = 0]
          ELSE b1

on_success(i, b) ==
  CASE i = "simple" -> simple_on_success(b)
    [] i = "shared" -> shared_on_success(b)
    [] OTHER -> payment_on_success(b)

\* ---------------------------------------------------- breaker: on failure
\* simple_on_failure with the threshold test strict.
simple_on_failure_strict(b, t) ==
  LET b1 == [b EXCEPT !.failure_count = @ + 1, !.last_failure_time = t]
  IN IF b1.failure_count > b.failure_threshold
     THEN [b1 EXCEPT !.state = "open"]
     ELSE b1

\* main.py:43-48.
simple_on_failure(b, t) ==
  LET b1 == [b EXCEPT !.failure_count = @ + 1, !.last_failure_time = t]
  IN IF b1.failure_count >= b.failure_threshold
     THEN [b1 EXCEPT !.state = "open"]
     ELSE b1

\* shared _on_failure, lines 54-60.
shared_on_failure(b, t) ==
  LET b1 == [b EXCEPT !.failure_count = @ + 1, !.last_failure_time = t]
  IN IF b1.failure_count >= b.failure_threshold
     THEN [b1 EXCEPT !.state = "open"]
     ELSE b1

\* payment_on_failure with a half-open failure keeping the old failure time.
payment_on_failure_keeping_time(b, t) ==
  LET b1 == [b EXCEPT !.failed_calls = @ + 1, !.failure_count = @ + 1,
                      !.last_failure_time =
                         IF b.state = "half_open" THEN @ ELSE t]
      b2 == IF b.state = "half_open"
            THEN [b1 EXCEPT !.state = "open", !.success_count = 0]
            ELSE IF b.state = "closed" /\ b1.failure_count >= b.failure_threshold
                 THEN [b1 EXCEPT !.state = "open", !.circuit_opens = @ + 1]
                 ELSE b1
  IN IF b2.failure_count >= b.max_failures
     THEN [b2 EXCEPT !.state = "open"]
     ELSE b2

\* payment _on_failure, lines 104-124.
payment_on_failure(b, t) ==
  LET b1 == [b EXCEPT !.failed_calls = @ + 1, !.failure_count = @ + 1,
                      !.last_failure_time = t]
      b2 == IF b.state = "half_open"
            THEN [b1 EXCEPT !.state = "open", !.success_count = 0]
            ELSE IF b.state = "closed" /\ b1.failure_count >= b.failure_threshold
                 THEN [b1 EXCEPT !.state = "open", !.circuit_opens = @ + 1]
                 ELSE b1
  IN IF b2.failure_count >= b.max_failures
     THEN [b2 EXCEPT !.state = "open"]
     ELSE b2

on_failure(i, b, t) ==
  CASE i = "simple" -> simple_on_failure(b, t)
    [] i = "shared" -> shared_on_failure(b, t)
    [] OTHER -> payment_on_failure(b, t)

\* reset() that leaves the state as it is.
reset_counters_only(b) ==
  [b EXCEPT !.failure_count = 0, !.success_count = 0,
            !.last_failure_time = None]

\* payment CircuitBreaker.reset(): the metrics are kept.
reset(b) ==
  [b EXCEPT !.state = "closed", !.failure_count = 0, !.success_count = 0,
            !.last_failure_time = None]

\* The number of half-open successes that close the breaker: the payment
\* implementation's success_threshold; the other two close on the first.
ClosingSuccesses(i, b) ==
  IF i = "payment" THEN b.success_threshold ELSE 1

\* =================================================================== state
VARIABLES
  now,        \* time.time(), in ticks
  impl,       \* which implementation the breaker of SpecBreaker is
  cb,         \* the breaker of SpecBreaker
  cpc,        \* caller -> "idle" | "running" (inside the wrapped function)
  ev,         \* history: the last breaker event, with the breaker before it
  failRun,    \* history: failed calls completed since the last success/reset
  trialRun,   \* history: successes completed in half_open since it was entered
  invoked,    \* history: how often the wrapped function was invoked
  started     \* history: calls started

breakerVars == <<impl, cb, cpc, ev, failRun, trialRun, invoked, started>>

VARIABLES
  rq,             \* slot -> the request it serves: pc, locals, last result
  redis,          \* the value at event:{id}:capacity (None: key absent)
  bookings,       \* the bookings table: rows in order of insertion
  catalog_cb,     \* process -> its catalog_circuit_breaker (main.py:89)
  db_cb,          \* the booking-db breaker of main_enhanced.py
  booking_queue,  \* RabbitMQ booking_queue: booking ids published
  booking_events, \* Kafka booking events added by cancel_booking
  depCalls,       \* history: GET /events/{id} requests sent to the catalog
  depFailRun,     \* history: process -> consecutive failed catalog requests
  lookupFailRun,  \* history: process -> consecutive failed breaker calls
  nreq,           \* history: booking requests started
  scn             \* the scenario: which process serves each slot, and the
                  \* number of requests and the clock horizon explored

bookingVars ==
  <<rq, redis, bookings, catalog_cb, db_cb, booking_queue, booking_events,
    depCalls, depFailRun, lookupFailRun, nreq, scn>>

\* bookingVars without the booking-events topic.
ledgerVars ==
  <<rq, redis, bookings, catalog_cb, db_cb, booking_queue, depCalls,
    depFailRun, lookupFailRun, nreq, scn>>

VARIABLES
  rt,             \* one retry_async call: its config, locals and outcome
  en,             \* main_enhanced.py: per process, the request it is
                  \* serving and its catalog and database breakers
  au,             \* get_current_user: the call in progress, its outcome
                  \* and the auth breaker of booking/app/main.py
  mr,             \* create_booking of main.py over several events: the
                  \* request in progress, the counter of each event and
                  \* the one catalog breaker of the process
  reg,            \* payment/shared/circuit_breaker.py: the breaker objects
                  \* of the process, _circuit_breakers, and the last call
                  \* of get_circuit_breaker with what it returned
  wk,             \* the worker's consumer of booking-events and the handler
                  \* it is running
  fx              \* history: deliveries, handler outcomes and side effects

VARIABLES
  dep,            \* the dependency behind the breaker of SpecRecovery:
                  \* "faulty" while its operation can raise, "healed" once
                  \* it only returns
  pay,            \* payment/app/main.py: the process_payment request in
                  \* progress, its response and the payments table
  rl              \* catalog/shared/shared/security.py: the Redis key
                  \* rate_limit:{client_ip}:{endpoint} of one client and
                  \* endpoint, and the rate_limit_check in progress

\* The variables that only the specification they belong to changes.
auxVars == <<dep, pay, rl>>

extVars == <<rt, en, au, mr, reg, wk, fx, auxVars>>

vars == <<now, breakerVars, bookingVars, extVars>>


\* Outside SpecRecovery the dependency stays as it starts.
PaymentIdle ==
  [pc |-> "idle", booking_id |-> 0, res |-> 0, payments |-> <<>>]

\* No key in Redis (value None, no expiry) and no request in progress.
RateLimitIdle ==
  [pc |-> "idle", value |-> None, expiry |-> None, res |-> 0, calls |-> 0]

AuxIdle ==
  /\ dep = "faulty"
  /\ pay = PaymentIdle
  /\ rl = RateLimitIdle

NoEvent == [kind |-> "none", c |-> 0, pre |-> NewBreaker, t |-> 0, inv |-> 0]

Event(k, c) == [kind |-> k, c |-> c, pre |-> cb, t |-> now, inv |-> invoked]

BreakerInit ==
  /\ cb = NewBreaker
  /\ cpc = [c \in Callers |-> "idle"]
  /\ ev = NoEvent
  /\ failRun = 0
  /\ trialRun = 0
  /\ invoked = 0
  /\ started = 0

\* ------------------------------------------------------------- SpecBreaker
\* The payment implementation holds self._lock from the entry of call() to
\* its return (async with self._lock around the awaited function): a caller
\* gets past the lock only while no other call is inside.
lock_free == \A c \in Callers : cpc[c] = "idle"

\* call(), up to the first await of the wrapped function: the state test,
\* then either the rejection or the invocation.
CallAdmit(c) ==
  /\ cpc[c] = "idle"
  /\ started < MaxCalls
  /\ impl = "payment" => lock_free
  /\ admits(impl, cb, now)
  /\ cb' = gate(impl, cb, now)
  /\ cpc' = [cpc EXCEPT ![c] = "running"]
  /\ invoked' = invoked + 1
  /\ started' = started + 1
  /\ trialRun' = IF cb.state = "open" THEN 0 ELSE trialRun
  /\ ev' = Event("admit", c)
  /\ UNCHANGED <<impl, failRun, now, bookingVars, extVars>>

CallReject(c) ==
  /\ cpc[c] = "idle"
  /\ started < MaxCalls
  /\ impl = "payment" => lock_free
  /\ ~admits(impl, cb, now)
  /\ cb' = gate(impl, cb, now)
  /\ started' = started + 1
  /\ ev' = Event("reject", c)
  /\ UNCHANGED <<impl, cpc, invoked, failRun, trialRun, now, bookingVars, extVars>>

\* The wrapped function returns: _on_success, and call() returns.
CallSuccess(c) ==
  /\ cpc[c] = "running"
  /\ cb' = on_success(impl, cb)
  /\ cpc' = [cpc EXCEPT ![c] = "idle"]
  /\ failRun' = 0
  /\ trialRun' = IF cb.state = "half_open" THEN trialRun + 1 ELSE 0
  /\ ev' = Event("success", c)
  /\ UNCHANGED <<impl, invoked, started, now, bookingVars, extVars>>

\* The wrapped function raises: _on_failure, and call() re-raises.
CallFailure(c) ==
  /\ cpc[c] = "running"
  /\ cb' = on_failure(impl, cb, now)
  /\ cpc' = [cpc EXCEPT ![c] = "idle"]
  /\ failRun' = failRun + 1
  /\ trialRun' = 0
  /\ ev' = Event("failure", c)
  /\ UNCHANGED <<impl, invoked, started, now, bookingVars, extVars>>

\* payment call() 77-80: the wrapped function raises an exception that is no
\* instance of config.expected_exception: it is logged and re-raised, and
\* neither _on_success nor _on_failure runs.
CallUnexpected(c) ==
  /\ impl = "payment"
  /\ cb.expected_exception # "Exception"
  /\ cpc[c] = "running"
  /\ cpc' = [cpc EXCEPT ![c] = "idle"]
  /\ ev' = Event("unexpected", c)
  /\ UNCHANGED <<impl, cb, failRun, trialRun, invoked, started, now,
                 bookingVars, extVars>>

\* reset() is synchronous and takes no lock: it runs between any two steps.
Reset ==
  /\ impl = "payment"
  /\ cb' = reset(cb)
  /\ failRun' = 0
  /\ trialRun' = 0
  /\ ev' = Event("reset", 0)
  /\ UNCHANGED <<impl, cpc, invoked, started, now, bookingVars, extVars>>

\* ------------------------------------------------------------ SpecRecovery
\* The wrapped function raises only while the dependency is faulty.
RecoveryFailure(c) ==
  /\ dep = "faulty"
  /\ CallFailure(c)

\* Calls that arrive before the recovery timeout are followed while the
\* dependency is faulty; afterwards the calls followed are those that
\* arrive once the breaker admits them.
RecoveryReject(c) ==
  /\ dep = "faulty"
  /\ CallReject(c)

\* From here on the operation always succeeds.
Heal ==
  /\ dep = "faulty"
  /\ dep' = "healed"
  /\ UNCHANGED <<now, breakerVars, bookingVars, rt, en, au, mr, reg, wk, fx,
                 pay, rl>>

\* ------------------------------------------------------------ SpecBooking
InstOf(r) == scn.inst[r]

\* What no step of a booking request touches.
HarnessIdle == UNCHANGED <<now, breakerVars, scn, extVars>>

IdleRequest ==
  [pc |-> "idle", seats |-> 0, attempt |-> 0, capacity |-> 0, reserved |-> 0,
   bid |-> 0, res |-> "none"]

BookingInit ==
  /\ rq = [r \in Slots |-> IdleRequest]
  /\ redis = None
  /\ bookings = <<>>
  /\ catalog_cb = [i \in Instances |-> NewBreaker]
  /\ db_cb = NewBreaker
  /\ booking_queue = <<>>
  /\ booking_events = <<>>
  /\ depCalls = 0
  /\ depFailRun = [i \in Instances |-> 0]
  /\ lookupFailRun = [i \in Instances |-> 0]
  /\ nreq = 0

\* Lines 179-200 of create_booking hold no await: within one process they
\* run without another coroutine of that process in between.
InSyncSection(r) == rq[r].pc \in {"get", "set0", "persist", "incr"}

LoopFree(r) ==
  \A q \in Slots \ {r} : InstOf(q) = InstOf(r) => ~InSyncSection(q)

\* The request returns or raises HTTPException(code): the locals are gone.
Returned(r, code) ==
  [rq[r] EXCEPT !.pc = "idle", !.res = code, !.attempt = 0, !.capacity = 0,
                !.reserved = 0, !.bid = 0]

\* get_current_user raises 401: no Authorization header, or a token that
\* neither the auth service accepts nor parses as a UUID.
StartUnauthenticated(r) ==
  /\ r \in scn.slots
  /\ rq[r].pc = "idle"
  /\ LoopFree(r)
  /\ nreq < scn.maxReq
  /\ \E s \in scn.seats :
       rq' = [rq EXCEPT ![r] = [IdleRequest EXCEPT !.seats = s, !.res = "401"]]
  /\ nreq' = nreq + 1
  /\ HarnessIdle
  /\ UNCHANGED <<redis, bookings, catalog_cb, db_cb, booking_queue,
                 booking_events, depCalls, depFailRun, lookupFailRun>>

\* get_current_user returns a user id (from the auth service, or the token
\* itself when it parses as a UUID); catalog_circuit_breaker.call finds the
\* breaker open: Exception -> HTTPException(503).
StartRejected(r) ==
  /\ r \in scn.slots
  /\ rq[r].pc = "idle"
  /\ LoopFree(r)
  /\ nreq < scn.maxReq
  /\ ~admits("simple", catalog_cb[InstOf(r)], now)
  /\ \E s \in scn.seats :
       rq' = [rq EXCEPT ![r] = [IdleRequest EXCEPT !.seats = s, !.res = "503 open"]]
  /\ catalog_cb' = [catalog_cb EXCEPT ![InstOf(r)] = gate("simple", @, now)]
  /\ nreq' = nreq + 1
  /\ HarnessIdle
  /\ UNCHANGED <<redis, bookings, db_cb, booking_queue, booking_events,
                 depCalls, depFailRun, lookupFailRun>>

\* ... or lets the call through: retry_async sends the first request.
StartAdmitted(r) ==
  /\ r \in scn.slots
  /\ rq[r].pc = "idle"
  /\ LoopFree(r)
  /\ nreq < scn.maxReq
  /\ admits("simple", catalog_cb[InstOf(r)], now)
  /\ \E s \in scn.seats :
       rq' = [rq EXCEPT ![r] =
                [IdleRequest EXCEPT !.seats = s, !.pc = "await_catalog"]]
  /\ catalog_cb' = [catalog_cb EXCEPT ![InstOf(r)] = gate("simple", @, now)]
  /\ depCalls' = depCalls + 1
  /\ nreq' = nreq + 1
  /\ HarnessIdle
  /\ UNCHANGED <<redis, bookings, db_cb, booking_queue, booking_events,
                 depFailRun, lookupFailRun>>

\* The catalog answers 200: retry_async returns, the breaker sees a success,
\* capacity = event.get("capacity", 0).
CatalogOk(r) ==
  /\ rq[r].pc = "await_catalog"
  /\ LoopFree(r)
  /\ rq' = [rq EXCEPT ![r].pc = "get", ![r].capacity = Capacity]
  /\ catalog_cb' = [catalog_cb EXCEPT ![InstOf(r)] = on_success("simple", @)]
  /\ depFailRun' = [depFailRun EXCEPT ![InstOf(r)] = 0]
  /\ lookupFailRun' = [lookupFailRun EXCEPT ![InstOf(r)] = 0]
  /\ HarnessIdle
  /\ UNCHANGED <<redis, bookings, db_cb, booking_queue, booking_events,
                 depCalls, nreq>>

\* A retry loop wrapped around the breaker instead of inside it: every
\* failed attempt is a failure of the breaker.
CatalogFailRetryCounted(r) ==
  /\ rq[r].pc = "await_catalog"
  /\ LoopFree(r)
  /\ rq[r].attempt # MaxAttempts - 1
  /\ rq' = [rq EXCEPT ![r].pc = "sleep"]
  /\ catalog_cb' =
       [catalog_cb EXCEPT ![InstOf(r)] = on_failure("simple", @, now)]
  /\ depFailRun' = [depFailRun EXCEPT ![InstOf(r)] = @ + 1]
  /\ HarnessIdle
  /\ UNCHANGED <<redis, bookings, db_cb, booking_queue,
                 booking_events, depCalls, lookupFailRun, nreq>>

\* The request fails (timeout, connection error, or a status other than 200)
\* and attempts remain: retry_async sleeps.
CatalogFailRetry(r) ==
  /\ rq[r].pc = "await_catalog"
  /\ LoopFree(r)
  /\ rq[r].attempt # MaxAttempts - 1
  /\ rq' = [rq EXCEPT ![r].pc = "sleep"]
  /\ depFailRun' = [depFailRun EXCEPT ![InstOf(r)] = @ + 1]
  /\ HarnessIdle
  /\ UNCHANGED <<redis, bookings, catalog_cb, db_cb, booking_queue,
                 booking_events, depCalls, lookupFailRun, nreq>>

\* asyncio.sleep is over: the next attempt sends the request again.
RetryAttempt(r) ==
  /\ rq[r].pc = "sleep"
  /\ LoopFree(r)
  /\ rq' = [rq EXCEPT ![r].pc = "await_catalog", ![r].attempt = @ + 1]
  /\ depCalls' = depCalls + 1
  /\ HarnessIdle
  /\ UNCHANGED <<redis, bookings, catalog_cb, db_cb, booking_queue,
                 booking_events, depFailRun, lookupFailRun, nreq>>

\* The last attempt fails: retry_async raises, the breaker sees one failure,
\* create_booking raises HTTPException(503).
CatalogFailLast(r) ==
  /\ rq[r].pc = "await_catalog"
  /\ LoopFree(r)
  /\ rq[r].attempt = MaxAttempts - 1
  /\ rq' = [rq EXCEPT ![r] = Returned(r, "503")]
  /\ catalog_cb' =
       [catalog_cb EXCEPT ![InstOf(r)] = on_failure("simple", @, now)]
  /\ depFailRun' = [depFailRun EXCEPT ![InstOf(r)] = @ + 1]
  /\ lookupFailRun' = [lookupFailRun EXCEPT ![InstOf(r)] = @ + 1]
  /\ HarnessIdle
  /\ UNCHANGED <<redis, bookings, db_cb, booking_queue, booking_events,
                 depCalls, nreq>>

\* main.py:186  reserved + req.seats > capacity
not_enough_seats(reserved, seats, capacity) ==
  reserved + seats > capacity

\* main.py:180-187 with the key present: reserved = int(r.get(event_key)).
RedisGet(r) ==
  /\ rq[r].pc = "get"
  /\ redis # None
  /\ rq' = [rq EXCEPT ![r] =
              IF not_enough_seats(redis, rq[r].seats, rq[r].capacity)
              THEN Returned(r, "400")
              ELSE [rq[r] EXCEPT !.pc = "persist", !.reserved = redis]]
  /\ HarnessIdle
  /\ UNCHANGED <<redis, bookings, catalog_cb, db_cb, booking_queue,
                 booking_events, depCalls, depFailRun, lookupFailRun, nreq>>

\* main.py:180-181 with the key absent: r.get returns None.
RedisGetNone(r) ==
  /\ rq[r].pc = "get"
  /\ redis = None
  /\ rq' = [rq EXCEPT ![r].pc = "set0"]
  /\ HarnessIdle
  /\ UNCHANGED <<redis, bookings, catalog_cb, db_cb, booking_queue,
                 booking_events, depCalls, depFailRun, lookupFailRun, nreq>>

\* main.py:182-187: r.set(event_key, 0); reserved = 0; the test.
RedisSetZero(r) ==
  /\ rq[r].pc = "set0"
  /\ redis' = 0
  /\ rq' = [rq EXCEPT ![r] =
              IF not_enough_seats(0, rq[r].seats, rq[r].capacity)
              THEN Returned(r, "400")
              ELSE [rq[r] EXCEPT !.pc = "persist", !.reserved = 0]]
  /\ HarnessIdle
  /\ UNCHANGED <<bookings, catalog_cb, db_cb, booking_queue, booking_events,
                 depCalls, depFailRun, lookupFailRun, nreq>>

\* main.py:193-196: the pending row is committed.
Persist(r) ==
  /\ rq[r].pc = "persist"
  /\ bookings' = Append(bookings,
       [seats |-> rq[r].seats, status |-> "pending"])
  /\ rq' = [rq EXCEPT ![r].pc = "incr", ![r].bid = Len(bookings) + 1]
  /\ HarnessIdle
  /\ UNCHANGED <<redis, catalog_cb, db_cb, booking_queue, booking_events,
                 depCalls, depFailRun, lookupFailRun, nreq>>

\* db.commit() raises: the exception leaves create_booking (500).
PersistFails(r) ==
  /\ rq[r].pc = "persist"
  /\ rq' = [rq EXCEPT ![r] = Returned(r, "500")]
  /\ HarnessIdle
  /\ UNCHANGED <<redis, bookings, catalog_cb, db_cb, booking_queue,
                 booking_events, depCalls, depFailRun, lookupFailRun, nreq>>

\* Redis INCRBY: an absent key counts as 0.
incrby(v, n) == IF v = None THEN n ELSE v + n

\* main.py:200  r.incrby(event_key, req.seats)
Incr(r) ==
  /\ rq[r].pc = "incr"
  /\ redis' = incrby(redis, rq[r].seats)
  /\ rq' = [rq EXCEPT ![r].pc = "publish"]
  /\ HarnessIdle
  /\ UNCHANGED <<bookings, catalog_cb, db_cb, booking_queue, booking_events,
                 depCalls, depFailRun, lookupFailRun, nreq>>

\* r.incrby raises (Redis unreachable): 500, the committed row stays.
IncrFails(r) ==
  /\ rq[r].pc = "incr"
  /\ rq' = [rq EXCEPT ![r] = Returned(r, "500")]
  /\ HarnessIdle
  /\ UNCHANGED <<redis, bookings, catalog_cb, db_cb, booking_queue,
                 booking_events, depCalls, depFailRun, lookupFailRun, nreq>>

\* Publish with a failed publish surfacing as a 500.
PublishOrFail(r) ==
  /\ rq[r].pc = "publish"
  /\ LoopFree(r)
  /\ \E ok \in BOOLEAN :
       /\ booking_queue' =
            IF ok THEN Append(booking_queue, rq[r].bid) ELSE booking_queue
       /\ rq' = [rq EXCEPT ![r] = Returned(r, IF ok THEN "200" ELSE "500")]
  /\ HarnessIdle
  /\ UNCHANGED <<redis, bookings, catalog_cb, db_cb, booking_events,
                 depCalls, depFailRun, lookupFailRun, nreq>>

\* main.py:202-226: the capacity PUT to the catalog (its outcome is only
\* printed, and the catalog of this repository has no such route), then the
\* publish to booking_queue, whose failure is only printed; return booking.
Publish(r) ==
  /\ rq[r].pc = "publish"
  /\ LoopFree(r)
  /\ \E ok \in BOOLEAN :
       booking_queue' =
         IF ok THEN Append(booking_queue, rq[r].bid) ELSE booking_queue
  /\ rq' = [rq EXCEPT ![r] = Returned(r, "200")]
  /\ HarnessIdle
  /\ UNCHANGED <<redis, bookings, catalog_cb, db_cb, booking_events,
                 depCalls, depFailRun, lookupFailRun, nreq>>

\* main.py:252-260 confirm_booking on an existing row.
ConfirmBooking(b) ==
  /\ b \in 1..Len(bookings)
  /\ bookings' = [bookings EXCEPT ![b].status = "confirmed"]
  /\ HarnessIdle
  /\ UNCHANGED <<rq, redis, catalog_cb, db_cb, booking_queue, booking_events,
                 depCalls, depFailRun, lookupFailRun, nreq>>

\* cancel_booking_record of main_enhanced.py: "ok", or the exception raised.
cancel_outcome(b, commit_ok) ==
  IF b \notin 1..Len(bookings) THEN "404"
  ELSE IF bookings[b].status = "cancelled" THEN "400"
  ELSE IF commit_ok THEN "ok" ELSE "500"

\* main_enhanced.py:346-395 cancel_booking: the record function runs inside
\* db_circuit_breaker.call (it holds no await, so the call is one step);
\* every exception it raises, HTTPException included, is the breaker's
\* expected_exception.
CancelBooking(b, commit_ok) ==
  /\ db_cb.total_calls < MaxCancels
  /\ b \in 1..(Len(bookings) + 1)
  /\ LET g == gate("payment", db_cb, now)
         out == cancel_outcome(b, commit_ok)
     IN IF ~admits("payment", db_cb, now)
        THEN /\ db_cb' = g
                        /\ UNCHANGED <<bookings, booking_events>>
        ELSE IF out = "ok"
        THEN /\ db_cb' = on_success("payment", g)
             /\ bookings' = [bookings EXCEPT ![b].status = "cancelled"]
             /\ booking_events' =
                  Append(booking_events,
                         [type |-> "BOOKING_CANCELLED", id |-> b])
                   ELSE /\ db_cb' = on_failure("payment", g, now)
                        /\ UNCHANGED <<bookings, booking_events>>
  /\ HarnessIdle
  /\ UNCHANGED <<rq, redis, catalog_cb, booking_queue, depCalls, depFailRun,
                 lookupFailRun, nreq>>

\* ------------------------------------------------------------- retry_async
\* The two retry_async of the repository: booking/app/main.py ("simple") and
\* shared/circuit_breaker.py ("shared").
RetryImpls == {"simple", "shared"}

\* Delays are counted in units of 1 / (2 * JitterSteps) second; the jitter
\* factor 0.5 + 0.5 * (time.time() % 1) is read at the fractions
\* j / JitterSteps, j in 0..JitterSteps-1.
DelayUnit == 2 * JitterSteps

RECURSIVE Pow(_, _)
Pow(b, k) == IF k = 0 THEN 1 ELSE b * Pow(b, k - 1)

Min(a, b) == IF a <= b THEN a ELSE b

\* main.py:61   base_delay * (2 ** attempt)
simple_delay(base_delay, attempt) ==
  base_delay * Pow(2, attempt) * DelayUnit

\* shared 97-103: min(base_delay * exponential_base ** attempt, max_delay),
\* then, with jitter, times 0.5 + 0.5 * (time.time() % 1).
shared_delay(base_delay, attempt, max_delay, jitter, j) ==
  LET d == Min(base_delay * Pow(ExponentialBase, attempt), max_delay)
  IN IF jitter THEN d * (JitterSteps + j) ELSE d * DelayUnit

\* What an attempt gives: the value it returns or the exception it raises,
\* told apart by the number of the attempt.
NoOutcome == [kind |-> "none", n |-> 0]
Value(k) == [kind |-> "value", n |-> k]
Failure(k) == [kind |-> "exception", n |-> k]
\* raise None: TypeError, exceptions must derive from BaseException.
TypeError == [kind |-> "TypeError", n |-> 0]

\* No retry_async call is being followed.
RetryOff ==
  [impl |-> "simple", max_attempts |-> 0, base_delay |-> 0, max_delay |-> 0,
   jitter |-> FALSE, pc |-> "off", attempt |-> 0, last_exception |-> NoOutcome,
   invocations |-> 0, outcomes |-> <<>>, slept |-> <<>>, how |-> "none",
   what |-> NoOutcome]

\* retry_async has been called with a config and has not run yet.
RetryCalled(i, n, b, m, jit) ==
  [RetryOff EXCEPT !.impl = i, !.max_attempts = n, !.base_delay = b,
                   !.max_delay = m, !.jitter = jit, !.pc = "loop"]

RetryFrame ==
  UNCHANGED <<now, breakerVars, bookingVars, en, au, mr, reg, wk, fx,
              auxVars>>

\* retry_async returns v / raises e.
RetryReturns(v) == [rt EXCEPT !.pc = "done", !.how = "returned", !.what = v]
RetryRaises(e) == [rt EXCEPT !.pc = "done", !.how = "raised", !.what = e]

\* for attempt in range(max_attempts): the loop head. With attempts left the
\* function is invoked; with the range exhausted before any attempt (only
\* max_attempts <= 0 gets here) main.py falls off the end and returns None,
\* shared runs raise last_exception with last_exception = None.
RetryLoop ==
  /\ rt.pc = "loop"
  /\ rt' = IF rt.attempt < rt.max_attempts
           THEN [rt EXCEPT !.pc = "await", !.invocations = @ + 1]
           ELSE IF rt.impl = "simple"
                THEN RetryReturns(NoOutcome)
                ELSE RetryRaises(IF rt.last_exception = NoOutcome
                                 THEN TypeError ELSE rt.last_exception)
  /\ RetryFrame

\* AttemptReturns with the value kept and the loop going on.
AttemptReturnsAndGoesOn ==
  /\ rt.pc = "await"
  /\ rt' = IF rt.attempt = rt.max_attempts - 1
           THEN [RetryReturns(Value(rt.attempt + 1))
                   EXCEPT !.outcomes = Append(@, "ok")]
           ELSE [rt EXCEPT !.pc = "sleep", !.outcomes = Append(@, "ok")]
  /\ RetryFrame

\* return await func(*args, **kwargs): the attempt returns.
AttemptReturns ==
  /\ rt.pc = "await"
  /\ rt' = [RetryReturns(Value(rt.attempt + 1))
              EXCEPT !.outcomes = Append(@, "ok")]
  /\ RetryFrame

\* AttemptRaises with the exception of the first failed attempt kept and
\* raised at the end.
AttemptRaisesFirstFailure ==
  /\ rt.pc = "await"
  /\ LET e == Failure(rt.attempt + 1)
         r1 == [rt EXCEPT !.outcomes = Append(@, "failed"),
                          !.last_exception =
                             IF @ = NoOutcome THEN e ELSE @]
     IN IF rt.attempt = rt.max_attempts - 1
        THEN rt' = [r1 EXCEPT !.pc = "done", !.how = "raised",
                              !.what = r1.last_exception]
        ELSE \E j \in 0..(JitterSteps - 1) :
               /\ rt.jitter \/ j = 0
               /\ rt' = [r1 EXCEPT
                          !.pc = "sleep",
                          !.slept = Append(@,
                             IF rt.impl = "simple"
                             THEN simple_delay(rt.base_delay, rt.attempt)
                             ELSE shared_delay(rt.base_delay, rt.attempt,
                                               rt.max_delay, rt.jitter, j))]
  /\ RetryFrame

\* except Exception as e: the last attempt re-raises (main.py raise e;
\* shared break, then raise last_exception), an earlier one sleeps.
AttemptRaises ==
  /\ rt.pc = "await"
  /\ LET e == Failure(rt.attempt + 1)
         r1 == [rt EXCEPT !.outcomes = Append(@, "failed"),
                          !.last_exception =
                             IF rt.impl = "shared" THEN e ELSE @]
     IN IF rt.attempt = rt.max_attempts - 1
        THEN rt' = [r1 EXCEPT !.pc = "done", !.how = "raised",
                              !.what = IF rt.impl = "shared"
                                       THEN r1.last_exception ELSE e]
        ELSE \E j \in 0..(JitterSteps - 1) :
               /\ rt.jitter \/ j = 0
               /\ rt' = [r1 EXCEPT
                          !.pc = "sleep",
                          !.slept = Append(@,
                             IF rt.impl = "simple"
                             THEN simple_delay(rt.base_delay, rt.attempt)
                             ELSE shared_delay(rt.base_delay, rt.attempt,
                                               rt.max_delay, rt.jitter, j))]
  /\ RetryFrame

\* await asyncio.sleep(delay) is over: the next iteration.
SleepOver ==
  /\ rt.pc = "sleep"
  /\ rt' = [rt EXCEPT !.pc = "loop", !.attempt = @ + 1]
  /\ RetryFrame

\* ------------------------------------------------- main_enhanced.py routes
\* The outcome of a route: the HTTP status code and what led to it.
Outcome(code, cause) == [code |-> code, cause |-> cause]

\* get_circuit_breaker("catalog-service", ...) and ("booking-db", ...).
EnhancedCatalogBreaker ==
  [NewBreaker EXCEPT !.failure_threshold = CatalogFailureThreshold,
                     !.success_threshold = CatalogSuccessThreshold]
EnhancedDbBreaker == NewBreaker

\* A process of the service with no request in it.
EnhancedProcess ==
  [pc |-> "idle", seats |-> 0, b |-> 0, res |-> Outcome(0, "none"),
   catalog |-> EnhancedCatalogBreaker, db |-> EnhancedDbBreaker,
   tasks |-> {}]

EnhancedIdle == [p \in Instances |-> EnhancedProcess]

\* The seat counts a request asks for: within the capacity, and above it.
EnhancedSeats == {3, Capacity + 1}

EnhancedFrame ==
  UNCHANGED <<now, breakerVars, rq, redis, catalog_cb, db_cb, booking_queue,
              depCalls, depFailRun, lookupFailRun, scn, rt, au, mr, reg, wk,
              fx, auxVars>>

\* The response leaves the route.
Responds(p, code, cause) ==
  [en[p] EXCEPT !.pc = "idle", !.b = 0, !.res = Outcome(code, cause)]

\* create_booking 195-210: the user comes from the token, unverified; the
\* lookup goes through catalog_circuit_breaker.call. An open breaker raises
\* CircuitBreakerOpenException, which is no HTTPException: line 260 turns it
\* into 500.
EnhancedBook(p, seats) ==
  /\ p \in scn.slots
  /\ en[p].pc = "idle"
  /\ nreq < scn.maxReq
  /\ nreq' = nreq + 1
  /\ LET g == payment_gate(en[p].catalog, now)
     IN IF admits("payment", en[p].catalog, now)
        THEN en' = [en EXCEPT ![p].pc = "lookup", ![p].seats = seats,
                              ![p].catalog = g,
                              ![p].res = Outcome(0, "none")]
        ELSE en' = [en EXCEPT ![p] =
                      [Responds(p, 500, "breaker_open") EXCEPT
                         !.seats = seats, !.catalog = g]]
  /\ UNCHANGED <<bookings, booking_events>>
  /\ EnhancedFrame

\* check_event_capacity 200-207 inside the breaker, then 214-216: status 200
\* gives the event, any other status raises HTTPException(404), a transport
\* error raises out of httpx (500 at line 260); every exception is the
\* breaker's expected_exception. There is no retry.
EnhancedLookup(p, answer) ==
  /\ en[p].pc = "lookup"
  /\ en' =
       IF answer = "200"
       THEN IF en[p].seats > Capacity
            THEN [en EXCEPT ![p] =
                    [Responds(p, 400, "seats") EXCEPT
                       !.catalog = payment_on_success(en[p].catalog)]]
            ELSE [en EXCEPT ![p].pc = "record",
                            ![p].catalog = payment_on_success(en[p].catalog)]
       ELSE [en EXCEPT ![p] =
               [Responds(p, IF answer = "404" THEN 404 ELSE 500,
                         "lookup_failed") EXCEPT
                  !.catalog = payment_on_failure(en[p].catalog, now)]]
  /\ UNCHANGED <<bookings, booking_events, nreq>>
  /\ EnhancedFrame

\* create_booking 219-246: create_booking_record inside
\* db_circuit_breaker.call, then publish_booking_event is handed to
\* background_tasks, to run after the response has been sent.
EnhancedRecord(p, commit_ok) ==
  /\ en[p].pc = "record"
  /\ LET g == payment_gate(en[p].db, now)
     IN IF ~admits("payment", en[p].db, now)
        THEN /\ en' = [en EXCEPT ![p] =
                        [Responds(p, 500, "db_open") EXCEPT !.db = g]]
             /\ UNCHANGED <<bookings, booking_events>>
        ELSE IF commit_ok
        THEN /\ en' = [en EXCEPT ![p] =
                        [Responds(p, 200, "booked") EXCEPT
                           !.db = payment_on_success(g),
                           !.tasks = @ \cup {[type |-> "BOOKING_CREATED",
                                              id |-> Len(bookings) + 1]}]]
             /\ bookings' = Append(bookings,
                  [seats |-> en[p].seats, status |-> "confirmed"])
             /\ UNCHANGED booking_events
        ELSE /\ en' = [en EXCEPT ![p] =
                        [Responds(p, 500, "db_failed") EXCEPT
                           !.db = payment_on_failure(g, now)]]
             /\ UNCHANGED <<bookings, booking_events>>
  /\ UNCHANGED nreq
  /\ EnhancedFrame

\* cancel_booking 353-366: the breaker admits the call and the session of
\* the process reads the row; a missing row is 404, a cancelled one 400.
EnhancedCancelQuery(p, b) ==
  /\ p \in scn.slots
  /\ en[p].pc = "idle"
  /\ nreq < scn.maxReq
  /\ nreq' = nreq + 1
  /\ b \in 1..(Len(bookings) + 1)
  /\ LET g == payment_gate(en[p].db, now)
     IN en' =
          IF ~admits("payment", en[p].db, now)
          THEN [en EXCEPT ![p] = [Responds(p, 500, "db_open") EXCEPT !.db = g]]
          ELSE IF b > Len(bookings)
          THEN [en EXCEPT ![p] =
                  [Responds(p, 404, "not_found") EXCEPT
                     !.db = payment_on_failure(g, now)]]
          ELSE IF bookings[b].status = "cancelled"
          THEN [en EXCEPT ![p] =
                  [Responds(p, 400, "already_cancelled") EXCEPT
                     !.db = payment_on_failure(g, now)]]
          ELSE [en EXCEPT ![p].pc = "cancel_commit", ![p].b = b, ![p].db = g,
                          ![p].res = Outcome(0, "none")]
  /\ UNCHANGED <<bookings, booking_events>>
  /\ EnhancedFrame

\* cancel_booking 368-388: the row the session read is set to cancelled and
\* committed, whatever another process has committed meanwhile; then
\* publish_booking_event is handed to background_tasks. A second
\* cancellation of the same booking by the same process hands over a second
\* task.
EnhancedCancelCommit(p, commit_ok) ==
  /\ en[p].pc = "cancel_commit"
  /\ IF commit_ok
     THEN /\ en' = [en EXCEPT ![p] =
                     [Responds(p, 200, "cancelled") EXCEPT
                        !.db = payment_on_success(en[p].db),
                        !.tasks = @ \cup {[type |-> "BOOKING_CANCELLED",
                                           id |-> en[p].b]}]]
          /\ bookings' = [bookings EXCEPT ![en[p].b].status = "cancelled"]
          /\ UNCHANGED booking_events
     ELSE /\ en' = [en EXCEPT ![p] =
                     [Responds(p, 500, "db_failed") EXCEPT
                        !.db = payment_on_failure(en[p].db, now)]]
          /\ UNCHANGED <<bookings, booking_events>>
  /\ UNCHANGED nreq
  /\ EnhancedFrame

\* -------------------------------------------------------- get_current_user
\* The three get_current_user of the repository.
AuthImpls == {"booking_main", "booking_enhanced", "payment_enhanced"}

\* What the Authorization header carries: nothing; a JWT of the auth service
\* with a good signature and not expired; such a JWT after its expiry; a JWT
\* with a subject and a signature the secret does not give; a JWT without a
\* subject; a bare UUID; anything else.
TokenKinds ==
  {"absent", "signed", "expired", "forged", "nosub", "uuid", "garbage"}

\* len(token.split('.')) == 3, payload_data.get('sub'), uuid.UUID(token).
ThreeParts(t) == t \in {"signed", "expired", "forged", "nosub"}
HasSub(t) == t \in {"signed", "expired", "forged"}
IsUuid(t) == t = "uuid"

\* auth/app/main_enhanced.py /verify: jwt.decode with the secret checks the
\* signature and the expiry.
VerifyAccepts(t) == t = "signed"

\* What get_current_user gives its route: the status code (200: a user id is
\* returned), where the user id came from, and whether signature and expiry
\* of the token were checked on the way.
AuthResult(code, user, verified) ==
  [code |-> code, user |-> user, verified |-> verified]
NoAuthResult == AuthResult(0, "none", FALSE)

AuthIdle ==
  [pc |-> "idle", impl |-> "none", token |-> "absent", attempt |-> 0,
   res |-> NoAuthResult, cb |-> NewBreaker, calls |-> 0]

AuthFrame ==
  UNCHANGED <<now, breakerVars, bookingVars, rt, en, mr, reg, wk, fx,
              auxVars>>

\* booking/app/main.py 146-151: the fallback after any exception of the
\* breaker-protected verification.
auth_fallback(t) ==
  IF IsUuid(t) THEN AuthResult(200, "token_uuid", FALSE)
  ELSE AuthResult(401, "none", FALSE)

\* booking/app/main_enhanced.py 138-184: the subject of the payload, read
\* without verification; every exception inside the try, the 401s raised
\* there included, ends in the default user id.
booking_enhanced_user(t) ==
  IF t = "absent" THEN AuthResult(401, "none", FALSE)
  ELSE IF ThreeParts(t) /\ HasSub(t) THEN AuthResult(200, "subject", FALSE)
  ELSE AuthResult(200, "default", FALSE)

\* payment/app/main_enhanced.py 146-182: the same decode; exceptions give 401.
payment_enhanced_user(t) ==
  IF t = "absent" THEN AuthResult(401, "none", FALSE)
  ELSE IF ThreeParts(t) /\ HasSub(t) THEN AuthResult(200, "subject", FALSE)
  ELSE AuthResult(401, "none", FALSE)

\* get_current_user of the two main_enhanced.py: one step, no remote call.
AuthDecode(i, t) ==
  /\ i \in {"booking_enhanced", "payment_enhanced"}
  /\ au.pc = "idle"
  /\ au.calls < MaxAuthCalls
  /\ au' = [au EXCEPT !.impl = i, !.token = t, !.calls = @ + 1,
                      !.res = IF i = "booking_enhanced"
                              THEN booking_enhanced_user(t)
                              ELSE payment_enhanced_user(t)]
  /\ AuthFrame

\* booking/app/main.py 124-141: no header is 401; else the entry of
\* auth_circuit_breaker.call, where an open breaker raises into the fallback.
AuthCall(t) ==
  /\ au.pc = "idle"
  /\ au.calls < MaxAuthCalls
  /\ au' =
       IF t = "absent"
       THEN [au EXCEPT !.impl = "booking_main", !.token = t, !.calls = @ + 1,
                       !.res = AuthResult(401, "none", FALSE)]
       ELSE IF admits("simple", au.cb, now)
       THEN [au EXCEPT !.impl = "booking_main", !.token = t, !.calls = @ + 1,
                       !.pc = "verify", !.attempt = 0, !.res = NoAuthResult,
                       !.cb = simple_gate(au.cb, now)]
       ELSE [au EXCEPT !.impl = "booking_main", !.token = t, !.calls = @ + 1,
                       !.res = auth_fallback(t)]
  /\ AuthFrame

\* One attempt of verify_token_with_auth_service inside retry_async inside
\* the breaker: 200 returns the user id; any other answer, or no answer,
\* raises, and after the last attempt the breaker counts one failure and the
\* fallback runs.
AuthVerify(up) ==
  /\ au.pc = "verify"
  /\ au' =
       IF up /\ VerifyAccepts(au.token)
       THEN [au EXCEPT !.pc = "idle", !.attempt = 0,
                       !.cb = simple_on_success(au.cb),
                       !.res = AuthResult(200, "subject", TRUE)]
       ELSE IF au.attempt = MaxAttempts - 1
       THEN [au EXCEPT !.pc = "idle", !.attempt = 0,
                       !.cb = simple_on_failure(au.cb, now),
                       !.res = auth_fallback(au.token)]
       ELSE [au EXCEPT !.pc = "sleep"]
  /\ AuthFrame

\* asyncio.sleep(base_delay * 2 ** attempt) is over.
AuthSleepOver ==
  /\ au.pc = "sleep"
  /\ au' = [au EXCEPT !.pc = "verify", !.attempt = @ + 1]
  /\ AuthFrame

\* A background task of the process runs publish_booking_event in the
\* thread pool, whatever the other tasks and requests are doing: the event
\* goes on the topic, or the publish fails and False is dropped.
EnhancedPublish(p, task, published) ==
  /\ task \in en[p].tasks
  /\ en' = [en EXCEPT ![p].tasks = @ \ {task}]
  /\ booking_events' =
       IF published THEN Append(booking_events, task) ELSE booking_events
  /\ UNCHANGED <<bookings, nreq>>
  /\ EnhancedFrame

\* ------------------------------------------ create_booking, several events
\* req.event_id: two events of the catalog.
Resources == {"A", "B"}

\* One process with no request in it: no event:{id}:capacity key exists and
\* catalog_circuit_breaker is new. fails counts, per event, the lookups that
\* ended in a failure.
ResourcesIdle ==
  [pc |-> "idle", event |-> "A", attempt |-> 0, res |-> Outcome(0, "none"),
   cb |-> NewBreaker, reserved |-> [e \in Resources |-> None],
   fails |-> [e \in Resources |-> 0], calls |-> 0]

ResourcesFrame ==
  UNCHANGED <<now, breakerVars, bookingVars, rt, en, au, reg, wk, fx,
              auxVars>>

\* main.py 153-175 for req.event_id = e: the entry of
\* catalog_circuit_breaker.call, the one breaker for every event.
ResourceBook(e) ==
  /\ mr.pc = "idle"
  /\ mr.calls < MaxResourceCalls
  /\ mr' =
       IF admits("simple", mr.cb, now)
       THEN [mr EXCEPT !.pc = "lookup", !.event = e, !.attempt = 0,
                       !.calls = @ + 1, !.res = Outcome(0, "none"),
                       !.cb = simple_gate(mr.cb, now)]
       ELSE [mr EXCEPT !.event = e, !.calls = @ + 1,
                       !.res = Outcome(503, "breaker_open")]
  /\ ResourcesFrame

\* An attempt of get_event_from_catalog fails: the event is unknown to the
\* catalog (any status but 200 raises), or the catalog does not answer.
\* retry_async goes on to the next attempt, or after the last one raises
\* into the breaker and create_booking answers 503.
ResourceLookupFails ==
  /\ mr.pc = "lookup"
  /\ mr' =
       IF mr.attempt = MaxAttempts - 1
       THEN [mr EXCEPT !.pc = "idle", !.attempt = 0,
                       !.cb = simple_on_failure(mr.cb, now),
                       !.fails[mr.event] = @ + 1,
                       !.res = Outcome(503, "lookup_failed")]
       ELSE [mr EXCEPT !.attempt = @ + 1]
  /\ ResourcesFrame

\* The catalog answers 200; main.py 179-200 on the key of the event: read
\* the counter (an absent key is set to 0), test it against the capacity
\* and add the seats.
ResourceReserve ==
  /\ mr.pc = "lookup"
  /\ LET e == mr.event
         reserved == IF mr.reserved[e] = None THEN 0 ELSE mr.reserved[e]
         cb1 == simple_on_success(mr.cb)
     IN mr' =
          IF not_enough_seats(reserved, LookupSeats, Capacity)
          THEN [mr EXCEPT !.pc = "idle", !.attempt = 0, !.cb = cb1,
                          !.reserved[e] = reserved,
                          !.res = Outcome(400, "seats")]
          ELSE [mr EXCEPT !.pc = "idle", !.attempt = 0, !.cb = cb1,
                          !.reserved[e] = reserved + LookupSeats,
                          !.res = Outcome(200, "booked")]
  /\ ResourcesFrame

\* ---------------------------------------------------------- process_payment
PaymentFrame ==
  UNCHANGED <<now, breakerVars, rq, redis, catalog_cb, db_cb, booking_queue,
              booking_events, depCalls, depFailRun, lookupFailRun, nreq, scn,
              rt, en, au, mr, reg, wk, fx, dep, rl>>

\* process_payment 111-113: get_current_user raises 401 (or 503) unless the
\* auth service verifies the token; payment_req.booking_id is whatever the
\* client sends, the id of a booking or not.
PaymentStart(b, verified) ==
  /\ pay.pc = "idle"
  /\ Len(pay.payments) < MaxPayments
  /\ b \in 1..(Len(bookings) + 1)
  /\ pay' = IF verified
            THEN [pay EXCEPT !.pc = "record", !.booking_id = b, !.res = 0]
            ELSE [pay EXCEPT !.booking_id = b, !.res = 401]
  /\ UNCHANGED bookings
  /\ PaymentFrame

\* process_payment 115-125: the payment row, status "completed", is committed
\* before the booking service is asked anything; a failing commit leaves the
\* route as a 500.
PaymentRecord(commit_ok) ==
  /\ pay.pc = "record"
  /\ pay' = IF commit_ok
            THEN [pay EXCEPT !.pc = "confirm",
                             !.payments = Append(@,
                                [booking_id |-> pay.booking_id,
                                 status |-> "completed"])]
            ELSE [pay EXCEPT !.pc = "idle", !.res = 500]
  /\ UNCHANGED bookings
  /\ PaymentFrame

\* process_payment 127-140 with confirm_booking 252-260 of the booking
\* service: the PUT either reaches confirm_booking, which sets the row to
\* confirmed or answers 404 when there is no such row, or fails on the way
\* (connection error, 5xx); a status other than 200 and an exception are
\* printed, and the route answers 200 in every case.
PaymentConfirm(reached) ==
  /\ pay.pc = "confirm"
  /\ bookings' = IF reached /\ pay.booking_id \in 1..Len(bookings)
                 THEN [bookings EXCEPT ![pay.booking_id].status = "confirmed"]
                 ELSE bookings
  /\ pay' = [pay EXCEPT !.pc = "idle", !.res = 200]
  /\ PaymentFrame

\* --------------------------------------------------------- rate_limit_check
RateLimitFrame ==
  UNCHANGED <<breakerVars, bookingVars, rt, en, au, mr, reg, wk, fx, dep, pay>>

\* security_middleware 130-132 and rate_limit_check 33-34: redis.incr(key)
\* creates an absent key with the value 1 and no expiry, and adds 1 to a key
\* that is there, keeping its expiry. When the value is not 1 the check
\* returns at line 39: a value above max_requests_per_window is the 429 of
\* line 137.
RateLimitIncr ==
  /\ rl.pc = "idle"
  /\ rl.calls < MaxRateCalls
  /\ LET current_requests == IF rl.value = None THEN 1 ELSE rl.value + 1
     IN rl' = [rl EXCEPT
                !.value = current_requests,
                !.calls = @ + 1,
                !.pc = IF current_requests = 1 THEN "expire" ELSE "idle",
                !.res = IF current_requests = 1 THEN 0
                        ELSE IF current_requests <= MaxRequestsPerWindow
                        THEN 200 ELSE 429]
  /\ UNCHANGED now
  /\ RateLimitFrame

\* rate_limit_check 36-39: redis.expire(key, rate_limit_window) is a second
\* command to Redis; when it raises (connection lost, timeout) the exception
\* leaves the middleware as a 500 and the key stays as INCR made it.
RateLimitExpire(ok) ==
  /\ rl.pc = "expire"
  /\ rl' = IF ok
           THEN [rl EXCEPT !.pc = "idle", !.expiry = now + RateLimitWindow,
                           !.res = 200]
           ELSE [rl EXCEPT !.pc = "idle", !.res = 500]
  /\ UNCHANGED now
  /\ RateLimitFrame

\* Time passes; Redis removes a key whose expiry has come.
RateLimitTick ==
  /\ now < scn.maxTime
  /\ now' = now + 1
  /\ rl' = IF rl.expiry # None /\ now + 1 >= rl.expiry
           THEN [rl EXCEPT !.value = None, !.expiry = None]
           ELSE rl
  /\ RateLimitFrame

\* ------------------------------------------------------ get_circuit_breaker
\* Dependency names, and the failure thresholds a config can carry.
BreakerNames == {"catalog-service", "booking-db"}
ConfigThresholds == {FailureThreshold, CatalogFailureThreshold}

\* _circuit_breakers = {}: objects holds every CircuitBreaker constructed (its
\* index is its identity), registry the index under each name (0: no entry),
\* name, threshold and ret the arguments and the result of the last call.
RegistryEmpty ==
  [objects |-> <<>>, registry |-> [n \in BreakerNames |-> 0],
   name |-> "none", threshold |-> 0, ret |-> 0, calls |-> 0]

RegistryFrame ==
  UNCHANGED <<now, breakerVars, bookingVars, rt, en, au, mr, wk, fx,
              auxVars>>

\* CircuitBreaker(name, config).
Constructed(n, threshold) ==
  [name |-> n, cb |-> [NewBreaker EXCEPT !.failure_threshold = threshold]]

\* A registry that takes the config of every call: the entry is rebuilt.
GetCircuitBreakerReconfiguring(n, threshold) ==
  /\ reg.calls < MaxRegistryCalls
  /\ reg' = [reg EXCEPT
              !.objects = Append(@, Constructed(n, threshold)),
              !.registry[n] = Len(reg.objects) + 1,
              !.name = n, !.threshold = threshold,
              !.ret = Len(reg.objects) + 1, !.calls = @ + 1]
  /\ RegistryFrame

\* get_circuit_breaker 172-176: construct and enter under the name only when
\* the name has no entry; return the entry.
GetCircuitBreaker(n, threshold) ==
  /\ reg.calls < MaxRegistryCalls
  /\ reg' =
       IF reg.registry[n] = 0
       THEN [reg EXCEPT
              !.objects = Append(@, Constructed(n, threshold)),
              !.registry[n] = Len(reg.objects) + 1,
              !.name = n, !.threshold = threshold,
              !.ret = Len(reg.objects) + 1, !.calls = @ + 1]
       ELSE [reg EXCEPT !.name = n, !.threshold = threshold,
                        !.ret = reg.registry[n], !.calls = @ + 1]
  /\ RegistryFrame

\* A caller that holds breaker i sees a call through it fail.
RegisteredBreakerFails(i) ==
  /\ i \in 1..Len(reg.objects)
  /\ reg.objects[i].cb.failed_calls < MaxRegistryCalls
  /\ reg' = [reg EXCEPT
              !.objects[i].cb = payment_on_failure(reg.objects[i].cb, now)]
  /\ RegistryFrame

\* reset_all_circuit_breakers 182-185.
ResetAllCircuitBreakers ==
  /\ reg.objects # <<>>
  /\ reg' = [reg EXCEPT
              !.objects = [i \in 1..Len(reg.objects) |->
                             [reg.objects[i] EXCEPT
                                !.cb = reset(reg.objects[i].cb)]]]
  /\ RegistryFrame

\* ------------------------------------------------------------------ worker
\* Offsets of the booking-events topic and the booking ids of its events.
Offsets == 1..MaxEvents
EventIds == 1..MaxEventIds
HandlerKinds == {"created", "cancelled"}

\* EventTypes.<name>.value
EventValue(name) ==
  CASE name = "BOOKING_CREATED" -> "booking.created"
    [] name = "BOOKING_CANCELLED" -> "booking.cancelled"
    [] OTHER -> "none"

\* A Python value with its type: a str, or a member of the Enum EventTypes.
PyStr(v) == [py |-> "str", v |-> v]
Member(name) == [py |-> "EventTypes", v |-> EventValue(name)]

\* publish_event 93-96 and consume_events 185: "event_type" goes on the
\* wire as event_type.value and comes back from json.loads as a str.
wire_event_type(name) == PyStr(EventValue(name))

\* publish_booking_event and publish_event 93-100: the JSON object on the
\* wire. The booking id and the other keyword data are nested under "data".
wire_event(msg) ==
  [event_type |-> wire_event_type(msg.type),
   data |-> [booking_id |-> msg.id, service |-> "booking"],
   service |-> "booking"]

\* event.get(field) on the decoded object: None for a missing key.
event_get(event, field) ==
  IF field \in DOMAIN event THEN event[field] ELSE None

\* ==: EventTypes is a plain Enum, so a str never equals a member.
py_eq(a, b) == a = b

\* process_booking_event 63-68: the handler the type test selects.
dispatch(event_type) ==
  IF py_eq(event_type, Member("BOOKING_CREATED")) THEN "created"
  ELSE IF py_eq(event_type, Member("BOOKING_CANCELLED")) THEN "cancelled"
  ELSE "unknown"

\* The consumer before its first poll: auto.offset.reset = earliest.
WorkerIdle ==
  [pc |-> "poll", cur |-> 0, kind |-> "none", pos |-> 1, committed |-> 1,
   restarts |-> 0, direct |-> 0]

NoEffects ==
  [delivered |-> [k \in Offsets |-> 0],
   returned |-> [k \in Offsets |-> 0],
   raised |-> [k \in Offsets |-> 0],
   mail |-> [h \in HandlerKinds |-> [b \in EventIds |-> 0]],
   analytics |-> [h \in HandlerKinds |-> [b \in EventIds |-> 0]]]

WorkerFrame ==
  UNCHANGED <<now, breakerVars, ledgerVars, rt, en, au, mr, reg, auxVars>>

\* publish_booking_event -> publish_event: produce and flush; a failure is
\* logged and False returned, with nothing on the topic.
PublishBookingEvent(name, b) ==
  /\ Len(booking_events) < MaxEvents
  /\ \E ok \in BOOLEAN :
       booking_events' =
         IF ok THEN Append(booking_events, [type |-> name, id |-> b])
         ELSE booking_events
  /\ UNCHANGED <<wk, fx>>
  /\ WorkerFrame

\* A record without a value on the topic (msg.value() is empty), written by
\* a producer outside publish_event.
EmptyRecordArrives ==
  /\ Len(booking_events) < MaxEvents
  /\ booking_events' = Append(booking_events, [type |-> "empty", id |-> 0])
  /\ UNCHANGED <<wk, fx>>
  /\ WorkerFrame

\* consume_events 175-188: poll returns the record at the position, the
\* value is decoded and the handler is awaited.
Poll ==
  /\ wk.pc = "poll"
  /\ wk.pos <= Len(booking_events)
  /\ wk' = [wk EXCEPT !.pc = "process", !.cur = wk.pos, !.pos = @ + 1]
  /\ fx' = [fx EXCEPT !.delivered[wk.pos] = @ + 1]
  /\ UNCHANGED booking_events
  /\ WorkerFrame

\* enable.auto.commit: the client commits, in the background, the offsets
\* of the records poll has handed out.
AutoCommit ==
  /\ wk.committed < wk.pos
  /\ wk' = [wk EXCEPT !.committed = wk.pos]
  /\ UNCHANGED <<booking_events, fx>>
  /\ WorkerFrame

\* process_booking_event 57-72 inside consume_events 183-191. A value of
\* None raises at event.get (AttributeError), logged as "Handler error" and
\* passed over with continue; an unknown type is logged and the handler
\* returns; a known type goes to its handler.
ProcessBookingEvent ==
  /\ wk.pc = "process"
  /\ LET msg == booking_events[wk.cur]
         h == dispatch(wire_event_type(msg.type))
     IN IF msg.type = "empty"
        THEN /\ wk' = [wk EXCEPT !.pc = "poll"]
             /\ fx' = [fx EXCEPT !.raised[wk.cur] = @ + 1]
        ELSE IF h = "unknown"
        THEN /\ wk' = [wk EXCEPT !.pc = "poll"]
             /\ fx' = [fx EXCEPT !.returned[wk.cur] = @ + 1]
        ELSE /\ wk' = [wk EXCEPT !.pc = "mail", !.kind = h]
             /\ fx' = fx
  /\ UNCHANGED booking_events
  /\ WorkerFrame

\* handle_booking_created / handle_booking_cancelled called with the event
\* at offset k by a caller that has settled the type itself.
DeliverToHandler(k) ==
  /\ wk.pc = "poll"
  /\ wk.direct < MaxDirect
  /\ k \in 1..Len(booking_events)
  /\ booking_events[k].type \in {"BOOKING_CREATED", "BOOKING_CANCELLED"}
  /\ wk' = [wk EXCEPT !.pc = "mail", !.cur = k, !.direct = @ + 1,
                      !.kind = IF booking_events[k].type = "BOOKING_CREATED"
                               THEN "created" ELSE "cancelled"]
  /\ fx' = [fx EXCEPT !.delivered[k] = @ + 1]
  /\ UNCHANGED booking_events
  /\ WorkerFrame

\* send_booking_confirmation / send_booking_cancellation.
SendMail ==
  /\ wk.pc = "mail"
  /\ wk' = [wk EXCEPT !.pc = "analytics"]
  /\ fx' = [fx EXCEPT !.mail[wk.kind][booking_events[wk.cur].id] = @ + 1]
  /\ UNCHANGED booking_events
  /\ WorkerFrame

\* update_booking_analytics, log_audit_event, and the handler returns.
UpdateAnalytics ==
  /\ wk.pc = "analytics"
  /\ wk' = [wk EXCEPT !.pc = "poll", !.kind = "none"]
  /\ fx' = [fx EXCEPT
              !.analytics[wk.kind][booking_events[wk.cur].id] = @ + 1,
              !.returned[wk.cur] = @ + 1]
  /\ UNCHANGED booking_events
  /\ WorkerFrame

\* The worker process dies or the group rebalances: the handler in
\* progress is gone and the consumer resumes at the committed offset.
Restart ==
  /\ wk.restarts < MaxRestarts
  /\ wk' = [wk EXCEPT !.pc = "poll", !.kind = "none", !.cur = 0,
                      !.pos = wk.committed, !.restarts = @ + 1]
  /\ UNCHANGED <<booking_events, fx>>
  /\ WorkerFrame

\* ------------------------------------------------------- specifications
\* Time passes.
Tick ==
  /\ now < scn.maxTime
  /\ now' = now + 1
  /\ UNCHANGED <<breakerVars, bookingVars, extVars>>

\* One breaker of either implementation, two concurrent callers.
InitBreaker ==
  /\ now = 1
  /\ rt = RetryOff
  /\ en = EnhancedIdle
  /\ au = AuthIdle
  /\ mr = ResourcesIdle
  /\ reg = RegistryEmpty
  /\ AuxIdle
  /\ wk = WorkerIdle
  /\ fx = NoEffects
  /\ impl \in Impls
  /\ BreakerInit
  /\ BookingInit
  /\ scn = [inst |-> [r \in Slots |-> r], slots |-> {}, seats |-> {},
            maxReq |-> 0, maxTime |-> MaxTime]

NextBreaker ==
  \/ \E c \in Callers : CallAdmit(c)
  \/ \E c \in Callers : CallReject(c)
  \/ \E c \in Callers : CallSuccess(c)
  \/ \E c \in Callers : CallFailure(c)
  \/ Reset
  \/ Tick

SpecBreaker == InitBreaker /\ [][NextBreaker]_vars

\* One breaker of either implementation and a dependency that fails until
\* it is healed; the clock runs long enough past the last failure for the
\* recovery timeout to pass.
InitRecovery ==
  /\ now = 1
  /\ rt = RetryOff
  /\ en = EnhancedIdle
  /\ au = AuthIdle
  /\ mr = ResourcesIdle
  /\ reg = RegistryEmpty
  /\ AuxIdle
  /\ wk = WorkerIdle
  /\ fx = NoEffects
  /\ impl \in Impls
  /\ BreakerInit
  /\ BookingInit
  /\ scn = [inst |-> [r \in Slots |-> r], slots |-> {}, seats |-> {},
            maxReq |-> 0, maxTime |-> MaxTime + RecoveryTimeout + 1]

NextRecovery ==
  \/ \E c \in Callers : CallAdmit(c)
  \/ \E c \in Callers : RecoveryReject(c)
  \/ \E c \in Callers : CallSuccess(c)
  \/ \E c \in Callers : RecoveryFailure(c)
  \/ Heal
  \/ Tick

\* Time passes, calls keep arriving whenever the breaker admits one, and
\* the awaited operation returns.
SpecRecovery ==
  /\ InitRecovery
  /\ [][NextRecovery]_vars
  /\ WF_vars(Tick)
  /\ WF_vars(\E c \in Callers : CallAdmit(c))
  /\ WF_vars(\E c \in Callers : CallSuccess(c))

\* One payment breaker constructed with a CircuitBreakerConfig whose
\* expected_exception is narrower than Exception, two callers.
InitNarrow ==
  /\ now = 1
  /\ rt = RetryOff
  /\ en = EnhancedIdle
  /\ au = AuthIdle
  /\ mr = ResourcesIdle
  /\ reg = RegistryEmpty
  /\ AuxIdle
  /\ wk = WorkerIdle
  /\ fx = NoEffects
  /\ impl = "payment"
  /\ cb = [NewBreaker EXCEPT !.expected_exception = "narrow"]
  /\ cpc = [c \in Callers |-> "idle"]
  /\ ev = NoEvent
  /\ failRun = 0
  /\ trialRun = 0
  /\ invoked = 0
  /\ started = 0
  /\ BookingInit
  /\ scn = [inst |-> [r \in Slots |-> r], slots |-> {}, seats |-> {},
            maxReq |-> 0, maxTime |-> MaxTime]

NextNarrow ==
  \/ \E c \in Callers : CallAdmit(c)
  \/ \E c \in Callers : CallReject(c)
  \/ \E c \in Callers : CallSuccess(c)
  \/ \E c \in Callers : CallFailure(c)
  \/ \E c \in Callers : CallUnexpected(c)
  \/ Reset
  \/ Tick

SpecNarrow == InitNarrow /\ [][NextNarrow]_vars

\* One payment breaker constructed with CircuitBreakerConfig(max_failures =
\* ConfiguredMaxFailures), two callers.
InitPermanent ==
  /\ now = 1
  /\ rt = RetryOff
  /\ en = EnhancedIdle
  /\ au = AuthIdle
  /\ mr = ResourcesIdle
  /\ reg = RegistryEmpty
  /\ AuxIdle
  /\ wk = WorkerIdle
  /\ fx = NoEffects
  /\ impl = "payment"
  /\ cb = [NewBreaker EXCEPT !.max_failures = ConfiguredMaxFailures]
  /\ cpc = [c \in Callers |-> "idle"]
  /\ ev = NoEvent
  /\ failRun = 0
  /\ trialRun = 0
  /\ invoked = 0
  /\ started = 0
  /\ BookingInit
  /\ scn = [inst |-> [r \in Slots |-> r], slots |-> {}, seats |-> {},
            maxReq |-> 0, maxTime |-> MaxTime]

NextPermanent ==
  \/ \E c \in Callers : CallAdmit(c)
  \/ \E c \in Callers : CallReject(c)
  \/ \E c \in Callers : CallSuccess(c)
  \/ \E c \in Callers : CallFailure(c)
  \/ Reset
  \/ Tick

SpecPermanent == InitPermanent /\ [][NextPermanent]_vars

\* The ledger: two booking-service processes, one request at a time each,
\* over one Redis counter and one bookings table, with confirmations and
\* cancellations arriving at any time; the clock stands still. With
\* LedgerRequests requests no catalog breaker collects the failures that
\* open it, so the rejection at the breaker is left to SpecLookup.
InitBooking ==
  /\ now = 1
  /\ rt = RetryOff
  /\ en = EnhancedIdle
  /\ au = AuthIdle
  /\ mr = ResourcesIdle
  /\ reg = RegistryEmpty
  /\ AuxIdle
  /\ wk = WorkerIdle
  /\ fx = NoEffects
  /\ impl = "simple"
  /\ BreakerInit
  /\ BookingInit
  /\ scn = [inst |-> [r \in Slots |-> r], slots |-> Slots,
            seats |-> SeatChoices, maxReq |-> LedgerRequests, maxTime |-> 1]

NextBooking ==
  \/ \E r \in Slots : StartUnauthenticated(r)
  \/ \E r \in Slots : StartAdmitted(r)
  \/ \E r \in Slots : CatalogOk(r)
  \/ \E r \in Slots : CatalogFailRetry(r)
  \/ \E r \in Slots : RetryAttempt(r)
  \/ \E r \in Slots : CatalogFailLast(r)
  \/ \E r \in Slots : RedisGet(r)
  \/ \E r \in Slots : RedisGetNone(r)
  \/ \E r \in Slots : RedisSetZero(r)
  \/ \E r \in Slots : Persist(r)
  \/ \E r \in Slots : PersistFails(r)
  \/ \E r \in Slots : Incr(r)
  \/ \E r \in Slots : IncrFails(r)
  \/ \E r \in Slots : Publish(r)
  \/ \E b \in 1..LedgerRequests : ConfirmBooking(b)
  \/ \E b \in 1..(LedgerRequests + 1), ok \in BOOLEAN : CancelBooking(b, ok)

SpecBooking == InitBooking /\ [][NextBooking]_vars

\* The catalog lookup: one booking-service process serving two requests at
\* a time through its catalog breaker, while time passes.
InitLookup ==
  /\ now = 1
  /\ rt = RetryOff
  /\ en = EnhancedIdle
  /\ au = AuthIdle
  /\ mr = ResourcesIdle
  /\ reg = RegistryEmpty
  /\ AuxIdle
  /\ wk = WorkerIdle
  /\ fx = NoEffects
  /\ impl = "simple"
  /\ BreakerInit
  /\ BookingInit
  /\ scn = [inst |-> [r \in Slots |-> 1], slots |-> Slots,
            seats |-> {LookupSeats}, maxReq |-> MaxRequests,
            maxTime |-> MaxTime]

NextLookup ==
  \/ \E r \in Slots : StartUnauthenticated(r)
  \/ \E r \in Slots : StartRejected(r)
  \/ \E r \in Slots : StartAdmitted(r)
  \/ \E r \in Slots : CatalogOk(r)
  \/ \E r \in Slots : CatalogFailRetry(r)
  \/ \E r \in Slots : RetryAttempt(r)
  \/ \E r \in Slots : CatalogFailLast(r)
  \/ \E r \in Slots : RedisGet(r)
  \/ \E r \in Slots : RedisGetNone(r)
  \/ \E r \in Slots : RedisSetZero(r)
  \/ \E r \in Slots : Persist(r)
  \/ \E r \in Slots : PersistFails(r)
  \/ \E r \in Slots : Incr(r)
  \/ \E r \in Slots : IncrFails(r)
  \/ \E r \in Slots : Publish(r)
  \/ Tick

SpecLookup == InitLookup /\ [][NextLookup]_vars

\* One retry_async call of either implementation, for every config up to
\* the bounds; every attempt and every sleep ends.
InitRetry ==
  /\ now = 1
  /\ impl = "simple"
  /\ BreakerInit
  /\ BookingInit
  /\ scn = [inst |-> [r \in Slots |-> r], slots |-> {}, seats |-> {},
            maxReq |-> 0, maxTime |-> 1]
  /\ en = EnhancedIdle
  /\ au = AuthIdle
  /\ mr = ResourcesIdle
  /\ reg = RegistryEmpty
  /\ AuxIdle
  /\ wk = WorkerIdle
  /\ fx = NoEffects
  /\ \E i \in RetryImpls, n \in 0..MaxRetryAttempts, b \in 1..MaxBaseDelay :
       \/ /\ i = "simple"
          /\ rt = RetryCalled(i, n, b, 0, FALSE)
       \/ /\ i = "shared"
          /\ \E m \in {RetryMaxDelayLow, RetryMaxDelay}, jit \in BOOLEAN :
               rt = RetryCalled(i, n, b, m, jit)

NextRetry ==
  \/ RetryLoop
  \/ AttemptReturns
  \/ AttemptRaises
  \/ SleepOver

SpecRetry == InitRetry /\ [][NextRetry]_vars /\ WF_vars(NextRetry)

\* The routes of main_enhanced.py over one database: one process serving a
\* run of requests long enough to open its catalog breaker, or two
\* processes serving a few requests concurrently.
InitEnhanced ==
  /\ now = 1
  /\ impl = "payment"
  /\ BreakerInit
  /\ BookingInit
  /\ scn \in {[inst |-> [r \in Slots |-> r], slots |-> {1}, seats |-> {3},
               maxReq |-> MaxEnhancedRequests, maxTime |-> 1],
              [inst |-> [r \in Slots |-> r], slots |-> Instances,
               seats |-> EnhancedSeats, maxReq |-> ConcurrentRequests,
               maxTime |-> MaxTime]}
  /\ rt = RetryOff
  /\ en = EnhancedIdle
  /\ au = AuthIdle
  /\ mr = ResourcesIdle
  /\ reg = RegistryEmpty
  /\ AuxIdle
  /\ wk = WorkerIdle
  /\ fx = NoEffects

NextEnhanced ==
  \/ Tick
  \/ \E p \in Instances, seats \in scn.seats : EnhancedBook(p, seats)
  \/ \E p \in Instances, answer \in {"200", "404", "down"} :
       EnhancedLookup(p, answer)
  \/ \E p \in Instances, commit_ok \in BOOLEAN :
       EnhancedRecord(p, commit_ok)
  \/ \E p \in Instances, b \in 1..MaxEnhancedRequests :
       EnhancedCancelQuery(p, b)
  \/ \E p \in Instances, commit_ok \in BOOLEAN :
       EnhancedCancelCommit(p, commit_ok)
  \/ \E p \in Instances, b \in 1..MaxEnhancedRequests,
        name \in {"BOOKING_CREATED", "BOOKING_CANCELLED"},
        published \in BOOLEAN :
       EnhancedPublish(p, [type |-> name, id |-> b], published)

SpecEnhanced == InitEnhanced /\ [][NextEnhanced]_vars

\* create_booking of booking/app/main.py in one process: the token
\* verification behind the auth breaker and the catalog lookup behind the
\* catalog breaker, each a retry_async inside its breaker.
InitGuarded ==
  /\ now = 1
  /\ impl = "simple"
  /\ BreakerInit
  /\ BookingInit
  /\ scn = [inst |-> [r \in Slots |-> 1], slots |-> {1},
            seats |-> {LookupSeats}, maxReq |-> GuardedCalls,
            maxTime |-> 1]
  /\ rt = RetryOff
  /\ en = EnhancedIdle
  /\ au = AuthIdle
  /\ mr = ResourcesIdle
  /\ reg = RegistryEmpty
  /\ AuxIdle
  /\ wk = WorkerIdle
  /\ fx = NoEffects

NextGuarded ==
  \/ \E t \in {"signed", "forged", "uuid"} :
       au.calls < GuardedCalls /\ AuthCall(t)
  \/ \E up \in BOOLEAN : AuthVerify(up)
  \/ AuthSleepOver
  \/ \E r \in Slots : StartRejected(r)
  \/ \E r \in Slots : StartAdmitted(r)
  \/ \E r \in Slots : CatalogOk(r)
  \/ \E r \in Slots : CatalogFailRetry(r)
  \/ \E r \in Slots : RetryAttempt(r)
  \/ \E r \in Slots : CatalogFailLast(r)
  \/ \E r \in Slots : RedisGet(r)
  \/ \E r \in Slots : RedisGetNone(r)
  \/ \E r \in Slots : RedisSetZero(r)
  \/ \E r \in Slots : Persist(r)
  \/ \E r \in Slots : Incr(r)
  \/ \E r \in Slots : Publish(r)

SpecGuarded == InitGuarded /\ [][NextGuarded]_vars

\* create_booking of booking/app/main.py in one process, for two events.
InitResources ==
  /\ now = 1
  /\ impl = "simple"
  /\ BreakerInit
  /\ BookingInit
  /\ scn = [inst |-> [r \in Slots |-> r], slots |-> {}, seats |-> {},
            maxReq |-> 0, maxTime |-> MaxTime]
  /\ rt = RetryOff
  /\ en = EnhancedIdle
  /\ au = AuthIdle
  /\ mr = ResourcesIdle
  /\ reg = RegistryEmpty
  /\ AuxIdle
  /\ wk = WorkerIdle
  /\ fx = NoEffects

NextResources ==
  \/ Tick
  \/ \E e \in Resources : ResourceBook(e)
  \/ ResourceLookupFails
  \/ ResourceReserve

SpecResources == InitResources /\ [][NextResources]_vars

\* process_payment over a bookings table that create_booking of
\* booking/app/main.py has filled with pending bookings.
InitPayment ==
  /\ now = 1
  /\ impl = "payment"
  /\ BreakerInit
  /\ rq = [r \in Slots |-> IdleRequest]
  /\ redis = PendingBookings * LookupSeats
  /\ bookings = [b \in 1..PendingBookings |->
                   [seats |-> LookupSeats, status |-> "pending"]]
  /\ catalog_cb = [i \in Instances |-> NewBreaker]
  /\ db_cb = NewBreaker
  /\ booking_queue = [b \in 1..PendingBookings |-> b]
  /\ booking_events = <<>>
  /\ depCalls = PendingBookings
  /\ depFailRun = [i \in Instances |-> 0]
  /\ lookupFailRun = [i \in Instances |-> 0]
  /\ nreq = PendingBookings
  /\ scn = [inst |-> [r \in Slots |-> 1], slots |-> {}, seats |-> {},
            maxReq |-> 0, maxTime |-> 1]
  /\ rt = RetryOff
  /\ en = EnhancedIdle
  /\ au = AuthIdle
  /\ mr = ResourcesIdle
  /\ reg = RegistryEmpty
  /\ AuxIdle
  /\ wk = WorkerIdle
  /\ fx = NoEffects

NextPayment ==
  \/ \E b \in 1..(PendingBookings + 1), verified \in BOOLEAN :
       PaymentStart(b, verified)
  \/ \E commit_ok \in BOOLEAN : PaymentRecord(commit_ok)
  \/ \E reached \in BOOLEAN : PaymentConfirm(reached)

SpecPayment == InitPayment /\ [][NextPayment]_vars

\* The requests of one client to one endpoint through security_middleware.
InitRateLimit ==
  /\ now = 1
  /\ impl = "payment"
  /\ BreakerInit
  /\ BookingInit
  /\ scn = [inst |-> [r \in Slots |-> r], slots |-> {}, seats |-> {},
            maxReq |-> 0, maxTime |-> MaxTime + RateLimitWindow]
  /\ rt = RetryOff
  /\ en = EnhancedIdle
  /\ au = AuthIdle
  /\ mr = ResourcesIdle
  /\ reg = RegistryEmpty
  /\ AuxIdle
  /\ wk = WorkerIdle
  /\ fx = NoEffects

NextRateLimit ==
  \/ RateLimitIncr
  \/ \E ok \in BOOLEAN : RateLimitExpire(ok)
  \/ RateLimitTick

SpecRateLimit == InitRateLimit /\ [][NextRateLimit]_vars

\* The breaker registry of one process.
InitRegistry ==
  /\ now = 1
  /\ impl = "payment"
  /\ BreakerInit
  /\ BookingInit
  /\ scn = [inst |-> [r \in Slots |-> r], slots |-> {}, seats |-> {},
            maxReq |-> 0, maxTime |-> 1]
  /\ rt = RetryOff
  /\ en = EnhancedIdle
  /\ au = AuthIdle
  /\ mr = ResourcesIdle
  /\ reg = RegistryEmpty
  /\ AuxIdle
  /\ wk = WorkerIdle
  /\ fx = NoEffects

NextRegistry ==
  \/ \E n \in BreakerNames, threshold \in ConfigThresholds :
       GetCircuitBreaker(n, threshold)
  \/ \E i \in 1..MaxRegistryCalls : RegisteredBreakerFails(i)
  \/ ResetAllCircuitBreakers

SpecRegistry == InitRegistry /\ [][NextRegistry]_vars

\* get_current_user of each service, called with every kind of token.
InitAuth ==
  /\ now = 1
  /\ impl = "simple"
  /\ BreakerInit
  /\ BookingInit
  /\ scn = [inst |-> [r \in Slots |-> r], slots |-> {}, seats |-> {},
            maxReq |-> 0, maxTime |-> MaxTime]
  /\ rt = RetryOff
  /\ en = EnhancedIdle
  /\ au = AuthIdle
  /\ mr = ResourcesIdle
  /\ reg = RegistryEmpty
  /\ AuxIdle
  /\ wk = WorkerIdle
  /\ fx = NoEffects

NextAuth ==
  \/ Tick
  \/ \E i \in AuthImpls, t \in TokenKinds : AuthDecode(i, t)
  \/ \E t \in TokenKinds : AuthCall(t)
  \/ \E up \in BOOLEAN : AuthVerify(up)
  \/ AuthSleepOver

SpecAuth == InitAuth /\ [][NextAuth]_vars

\* The booking-events topic and the worker that consumes it.
InitWorker ==
  /\ now = 1
  /\ impl = "simple"
  /\ BreakerInit
  /\ BookingInit
  /\ scn = [inst |-> [r \in Slots |-> r], slots |-> {}, seats |-> {},
            maxReq |-> 0, maxTime |-> 1]
  /\ rt = RetryOff
  /\ en = EnhancedIdle
  /\ au = AuthIdle
  /\ mr = ResourcesIdle
  /\ reg = RegistryEmpty
  /\ AuxIdle
  /\ wk = WorkerIdle
  /\ fx = NoEffects

NextWorker ==
  \/ \E name \in {"BOOKING_CREATED", "BOOKING_CANCELLED"}, b \in EventIds :
       PublishBookingEvent(name, b)
  \/ EmptyRecordArrives
  \/ Poll
  \/ AutoCommit
  \/ ProcessBookingEvent
  \/ \E k \in Offsets : DeliverToHandler(k)
  \/ SendMail
  \/ UpdateAnalytics
  \/ Restart

SpecWorker == InitWorker /\ [][NextWorker]_vars

\* ================================================= claims: circuit breaker
Elapsed(b, t) == t - b.last_failure_time

\* C4 (as claimed): a failure that completes while the breaker is closed
\* leaves it open when it is the failure_threshold-th consecutive failure,
\* and closed when fewer consecutive failures have completed.
C4_OpensExactlyAtThreshold ==
  (ev.kind = "failure" /\ ev.pre.state = "closed") =>
    IF failRun >= cb.failure_threshold
    THEN cb.state = "open"
    ELSE cb.state = "closed"

\* C4 restricted to the implementations that reset the count on success.
C4_HoldsForSharedAndPayment ==
  impl # "simple" => C4_OpensExactlyAtThreshold

\* C5: while the breaker is open and less than the recovery timeout has
\* passed since the last failure, a call is rejected; a rejected call does
\* not invoke the wrapped function and leaves the state, both counters and
\* the failure time as they were.
C5_OpenRejectsWithoutInvoking ==
  /\ (cb.state = "open" /\ Elapsed(cb, now) < cb.timeout) =>
       ~admits(impl, cb, now)
  /\ ev.kind = "reject" =>
       /\ ev.pre.state = "open"
       /\ cb.state = "open"
       /\ cb.failure_count = ev.pre.failure_count
       /\ cb.success_count = ev.pre.success_count
       /\ cb.last_failure_time = ev.pre.last_failure_time
       /\ invoked = ev.inv
       /\ cpc[ev.c] = "idle"

C5_Witness ==
  /\ ev.kind = "reject"
  /\ cb.state = "open"
  /\ Elapsed(ev.pre, ev.t) < cb.timeout
  /\ invoked >= cb.failure_threshold

\* C6 (as claimed): a call is rejected only while less than the recovery
\* timeout has passed since the last failure; a call that finds the breaker
\* open and is let through has set it to half_open and invoked the function.
C6_ElapsedCallGoesHalfOpen ==
  /\ ev.kind = "reject" => Elapsed(ev.pre, ev.t) < ev.pre.timeout
  /\ (ev.kind = "admit" /\ ev.pre.state = "open") =>
       /\ invoked = ev.inv + 1
       /\ cpc[ev.c] = "running"
       /\ cb.state = "half_open"

\* C6 with the boundary instant excluded: more than the timeout has passed.
C6_HoldsPastTheBoundary ==
  /\ ev.kind = "reject" => Elapsed(ev.pre, ev.t) <= ev.pre.timeout
  /\ (ev.kind = "admit" /\ ev.pre.state = "open") => invoked = ev.inv + 1

\* C7: a success that completes while the breaker is half_open closes it,
\* with both counters at zero, exactly when it is the success_threshold-th
\* consecutive half-open success; after fewer the breaker is still half_open.
C7_ClosesAtSuccessThreshold ==
  (ev.kind = "success" /\ ev.pre.state = "half_open") =>
    IF trialRun >= ClosingSuccesses(impl, cb)
    THEN cb.state = "closed" /\ cb.failure_count = 0 /\ cb.success_count = 0
    ELSE cb.state = "half_open" /\ cb.success_count = trialRun

C7_Witness ==
  /\ impl = "payment"
  /\ ev.kind = "success"
  /\ ev.pre.state = "half_open"
  /\ ev.pre.success_count = cb.success_threshold - 1
  /\ ev.pre.failure_count >= cb.failure_threshold
  /\ cb.state = "closed"

\* C8: a failure that completes while the breaker is half_open leaves it
\* open with the failure time set to the time of that failure, and a call
\* is let through an open breaker only once the recovery timeout has passed
\* since the last failure.
C8_HalfOpenFailureReopens ==
  /\ (ev.kind = "failure" /\ ev.pre.state = "half_open") =>
       /\ cb.state = "open"
       /\ cb.last_failure_time = ev.t
  /\ (ev.kind = "admit" /\ ev.pre.state = "open") =>
       Elapsed(ev.pre, ev.t) >= ev.pre.timeout

C8_Witness ==
  /\ ev.kind = "failure"
  /\ ev.pre.state = "half_open"
  /\ ev.pre.last_failure_time < ev.t
  /\ cb.state = "open"
  /\ cb.last_failure_time = ev.t

\* C9 (as claimed): a success that completes while the breaker is closed
\* leaves the failure count at zero, and a failure opens a closed breaker
\* only as the failure_threshold-th consecutive failure.
C9_SuccessResetsFailureCount ==
  /\ (ev.kind = "success" /\ ev.pre.state = "closed") => cb.failure_count = 0
  /\ (ev.kind = "failure" /\ ev.pre.state = "closed" /\ cb.state = "open") =>
       failRun >= cb.failure_threshold

C9_HoldsForSharedAndPayment ==
  impl # "simple" => C9_SuccessResetsFailureCount

\* ========================================================= claims: ledger
\* The reserved counter as create_booking reads it (an absent key is 0).
Reserved == IF redis = None THEN 0 ELSE redis

RECURSIVE SeatsOf(_, _)
\* The seats of the rows of `rows` whose status is in `statuses`.
SeatsOf(rows, statuses) ==
  IF rows = <<>> THEN 0
  ELSE (IF Head(rows).status \in statuses THEN Head(rows).seats ELSE 0)
       + SeatsOf(Tail(rows), statuses)

NoRequestInFlight == \A r \in Slots : rq[r].pc = "idle"

\* C1 (as claimed): at every point the reserved counter is at most the
\* capacity the catalog returns.
C1_ReservedWithinCapacity ==
  Reserved <= Capacity

\* C2 (as claimed): when the two slots have each served one request for 6
\* seats and each got a booking decision (200, or 400 for not enough
\* seats), exactly one of them got the booking.
C2_ScenarioAExactlyOne ==
  (/\ nreq = 2
   /\ \A r \in Slots : /\ rq[r].pc = "idle"
                       /\ rq[r].seats = 6
                       /\ rq[r].res \in {"200", "400"})
  => \E r \in Slots : /\ rq[r].res = "200"
                      /\ \A q \in Slots \ {r} : rq[q].res = "400"

\* C3 (as claimed): with no request in progress, the reserved counter is
\* the sum of the seats of the confirmed bookings.
C3_ReservedIsConfirmedSeats ==
  NoRequestInFlight => Reserved = SeatsOf(bookings, {"confirmed"})

\* C3 read with pending bookings counted as holding their seats, and only
\* where every committed row got its increment: a cancellation still leaves
\* the seats of the cancelled row in the counter.
C3_CancelReleasesSeats ==
  (/\ NoRequestInFlight
   /\ Reserved = SeatsOf(bookings, {"pending", "confirmed", "cancelled"}))
  => Reserved = SeatsOf(bookings, {"pending", "confirmed"})

\* ========================================================= claims: lookup
\* A catalog request is sent in this step by the request of slot r.
SendsCatalogRequest(r) ==
  /\ rq[r].pc \in {"idle", "sleep"}
  /\ rq'[r].pc = "await_catalog"

\* Slot r starts a request that gets past authentication in this step.
ArrivesAtBreaker(r) ==
  /\ rq[r].pc = "idle"
  /\ nreq' = nreq + 1
  /\ rq'[r] # rq[r]
  /\ rq'[r].res # "401"

Succeeded == {k \in 1..Len(rt.outcomes) : rt.outcomes[k] = "ok"}

\* C11: a retry_async call with max_attempts >= 1 never invokes the function
\* more than max_attempts times; once an attempt has returned, no further
\* attempt is made and the call has returned that attempt's value; and the
\* call ends (returns or raises).
C11_RetryBoundedStopsAtSuccess ==
  /\ [](rt.max_attempts >= 1 =>
         /\ rt.invocations <= rt.max_attempts
         /\ rt.invocations =
              Len(rt.outcomes) + (IF rt.pc = "await" THEN 1 ELSE 0)
         /\ Succeeded # {} =>
              /\ Succeeded = {Len(rt.outcomes)}
              /\ rt.pc = "done"
              /\ rt.how = "returned"
              /\ rt.what = Value(Len(rt.outcomes)))
  /\ (rt.max_attempts >= 1) => <>(rt.pc = "done")

C11_Witness ==
  /\ rt.max_attempts = MaxRetryAttempts
  /\ rt.outcomes = [k \in 1..MaxRetryAttempts |->
                      IF k = MaxRetryAttempts THEN "ok" ELSE "failed"]
  /\ rt.invocations = MaxRetryAttempts
  /\ rt.how = "returned"
  /\ rt.what = Value(MaxRetryAttempts)

\* C12 (as claimed): when a retry_async call has ended and none of its
\* max_attempts attempts returned, it has raised the exception of attempt
\* number max_attempts; and a call that returned had an attempt that
\* returned.
C12_ExhaustionRaisesLastFailure ==
  rt.pc = "done" =>
    /\ Succeeded = {} =>
         /\ rt.how = "raised"
         /\ rt.what = Failure(rt.max_attempts)
         /\ Len(rt.outcomes) = rt.max_attempts
    /\ rt.how = "returned" => Succeeded # {}

\* C12 (amended): the same for max_attempts >= 1. With max_attempts = 0 no
\* attempt is made: main.py returns None, shared raises TypeError.
C12_ExhaustionRaisesLastFailureFromOne ==
  rt.max_attempts >= 1 => C12_ExhaustionRaisesLastFailure

C12_Witness ==
  /\ rt.impl = "shared"
  /\ rt.max_attempts = MaxRetryAttempts
  /\ rt.pc = "done"
  /\ Succeeded = {}
  /\ Len(rt.outcomes) = MaxRetryAttempts
  /\ rt.how = "raised"
  /\ rt.what = Failure(MaxRetryAttempts)

\* ============================================== claims: booking outcomes
AllStatuses == {"pending", "confirmed", "cancelled"}

\* The request of slot r runs the capacity test of main.py:186 in this step.
RunsCapacityTest(r) ==
  /\ rq[r].pc \in {"get", "set0"}
  /\ rq'[r] # rq[r]
  /\ rq'[r].pc # "set0"

\* C14 (as claimed): a request whose test finds reserved + seats > capacity ends with 400
\* and leaves the counter value, the bookings and the queue as they were;
\* one that finds reserved + seats <= capacity goes on to persist; the
\* increment adds exactly the seats of the request; and only a request
\* that has incremented returns 200.
C14_RejectsOrAddsExactly ==
  [][\A r \in Slots :
       /\ RunsCapacityTest(r) =>
            IF Reserved + rq[r].seats > rq[r].capacity
            THEN /\ rq'[r].pc = "idle"
                 /\ rq'[r].res = "400"
                 /\ Reserved' = Reserved
                 /\ UNCHANGED <<bookings, booking_queue>>
            ELSE /\ rq'[r].pc = "persist"
                 /\ Reserved' = Reserved
       /\ (rq[r].pc = "incr" /\ rq'[r].pc = "publish") =>
            Reserved' = Reserved + rq[r].seats
       /\ (rq[r].pc # "idle" /\ rq'[r].pc = "idle" /\ rq'[r].res = "200") =>
            rq[r].pc = "publish"]_vars

\* C15 (as claimed): with no request in progress, whatever failed, the seats
\* of every persisted row are in the counter and nothing else is: a failed
\* request left neither seats in the counter nor a row outside it.
C15_FailuresLeaveNoDivergence ==
  NoRequestInFlight => Reserved = SeatsOf(bookings, AllStatuses)

\* The half of C15 that holds: a request that ends with a status other than
\* 200 ends with the counter value it found.
C15_FailedRequestKeepsCounter ==
  [][\A r \in Slots :
       (rq[r].pc # "idle" /\ rq'[r].pc = "idle" /\ rq'[r].res # "200") =>
         Reserved' = Reserved /\ rq[r].pc # "publish"]_vars

\* C16: the step that publishes to booking_queue returns the booking (200)
\* whether or not the publish succeeds, and leaves the persisted row of the
\* request and the counter as they were.
C16_PublishFailureKeepsBooking ==
  [][\A r \in Slots :
       (rq[r].pc = "publish" /\ rq'[r] # rq[r]) =>
         /\ rq'[r].pc = "idle"
         /\ rq'[r].res = "200"
         /\ UNCHANGED <<bookings, redis>>
         /\ rq[r].bid \in 1..Len(bookings)
         /\ bookings[rq[r].bid].seats = rq[r].seats]_vars

C16_Witness ==
  /\ booking_queue = <<>>
  /\ Len(bookings) = 1
  /\ bookings[1].status = "pending"
  /\ Reserved = bookings[1].seats
  /\ \E r \in Slots : rq[r].pc = "idle" /\ rq[r].res = "200"

\* C17 (as claimed): a cancellation that turns a row to cancelled subtracts
\* the seats of the row from the counter and adds one BOOKING_CANCELLED
\* event.
C17_CancelSubtractsSeats ==
  [][\A b \in 1..Len(bookings) :
       (bookings[b].status # "cancelled" /\ bookings'[b].status = "cancelled")
       => /\ Reserved' = Reserved - bookings[b].seats
          /\ booking_events' =
               Append(booking_events,
                      [type |-> "BOOKING_CANCELLED", id |-> b])]_vars

\* ---------------------------------------------------------- claims: worker
\* The BOOKING_CREATED events on the topic for booking b.
CreatedOffsets(b) ==
  {k \in 1..Len(booking_events) :
     booking_events[k].type = "BOOKING_CREATED" /\ booking_events[k].id = b}

\* C19 (as claimed): when the one BOOKING_CREATED event of a booking has been
\* delivered twice and its handling has returned both times, exactly one
\* confirmation has been sent and one analytics update made for the booking.
C19_RedeliveryNotifiesOnce ==
  \A b \in EventIds :
    \A k \in CreatedOffsets(b) :
      (CreatedOffsets(b) = {k} /\ fx.delivered[k] = 2 /\ fx.returned[k] = 2)
      => /\ fx.mail["created"][b] = 1
         /\ fx.analytics["created"][b] = 1

\* C20 (as claimed): no record is passed over unapplied. When the consumer is
\* about to poll, every record before its position has been handled with a
\* normal return, and a record below the committed offset that has not been
\* handled with a normal return is the one being handled now.
C20_NoRecordPassedOver ==
  /\ wk.pc = "poll" /\ wk.direct = 0 =>
       \A k \in 1..(wk.pos - 1) : fx.returned[k] > 0
  /\ \A k \in 1..(wk.committed - 1) :
       fx.returned[k] = 0 => (wk.pc # "poll" /\ wk.cur = k)

\* --------------------------------------------- claims: main_enhanced routes
\* C13 (as claimed): a booking request that meets an open catalog breaker, or
\* whose capacity lookup fails, is answered 503 and leaves the booking rows,
\* the reserved counter and the published events as they were.
C13_LookupFailureIs503 ==
  [][\A p \in Instances :
       (/\ en'[p] # en[p]
        /\ en'[p].pc = "idle"
        /\ en'[p].res.cause \in {"breaker_open", "lookup_failed"})
       => /\ en'[p].res.code = 503
          /\ UNCHANGED <<bookings, redis, booking_events>>]_vars

\* The BOOKING_CANCELLED events published for booking b.
CancelledEvents(b) ==
  {k \in 1..Len(booking_events) :
     booking_events[k] = [type |-> "BOOKING_CANCELLED", id |-> b]}

\* C18 (as claimed): a cancellation of a booking that is already cancelled
\* changes nothing, so no booking ever has a second BOOKING_CANCELLED event,
\* and a cancellation that meets a cancelled row leaves rows and events as
\* they were.
C18_CancelledAtMostOnce ==
  /\ [](\A b \in 1..Len(bookings) : Cardinality(CancelledEvents(b)) <= 1)
  /\ [][\A p \in Instances :
          (/\ en[p].pc = "cancel_commit"
           /\ bookings[en[p].b].status = "cancelled"
           /\ en'[p] # en[p])
          => /\ en'[p].res.cause = "already_cancelled"
             /\ UNCHANGED <<bookings, booking_events>>]_vars

\* ------------------------------------------------- claims: authentication
\* C21 (as claimed): get_current_user hands a user id to its route only
\* after signature and expiry of the token have been verified.
C21_UserIdOnlyVerified ==
  au.res.code = 200 => au.res.verified

\* ------------------------------------------------ claims: booking lifecycle
\* The status changes the lifecycle allows.
AllowedTransitions ==
  {<<"pending", "confirmed">>, <<"pending", "cancelled">>,
   <<"confirmed", "cancelled">>}

\* C22 (as claimed): no step removes a booking row, and a row changes status
\* only from pending to confirmed or from pending or confirmed to cancelled.
C22_StatusFollowsLifecycle ==
  [][/\ Len(bookings') >= Len(bookings)
     /\ \A b \in 1..Len(bookings) :
          \/ bookings'[b].status = bookings[b].status
          \/ <<bookings[b].status, bookings'[b].status>>
               \in AllowedTransitions]_vars

\* --------------------------------------------- claims: breaker concurrency
\* The callers whose wrapped function is in progress.
InFlight == {c \in Callers : cpc[c] = "running"}

\* C23 (as claimed): a call that enters while the breaker is half_open is
\* let through to the wrapped function only when no other call is in
\* flight, so two trial calls never run at once.
C23_OneTrialInFlight ==
  [][\A c \in Callers :
       (cb.state = "half_open" /\ cpc[c] = "idle" /\ cpc'[c] = "running")
       => InFlight = {}]_vars

\* C23 for the implementation that takes a lock around the call.
C23_HoldsForPayment ==
  [][impl = "payment" =>
       \A c \in Callers :
         (cb.state = "half_open" /\ cpc[c] = "idle" /\ cpc'[c] = "running")
         => InFlight = {}]_vars

\* C24 (as claimed): while the wrapped function of one caller is in
\* progress, another caller that has calls left can enter call() and is
\* either let through or rejected.
C24_EntryOpenDuringCall ==
  \A c \in Callers, d \in Callers :
    (c # d /\ cpc[c] = "running" /\ cpc[d] = "idle" /\ started < MaxCalls)
    => ENABLED (CallAdmit(d) \/ CallReject(d))

\* C24 for the implementations without a lock.
C24_HoldsForSimpleAndShared ==
  impl # "payment" => C24_EntryOpenDuringCall

\* ------------------------------------------------ claims: retry and breaker
\* C25: a failed attempt of a retried lookup that is followed by another
\* attempt leaves the breaker as it was, and the return of the whole call
\* raises the failure counter of its breaker by at most one; the catalog
\* lookup and the token verification follow the same rule.
C25_RetriedCallCountsOnce ==
  [][/\ \A r \in Slots :
          (rq[r].pc \in {"await_catalog", "sleep"} /\ rq'[r] # rq[r]) =>
            IF rq'[r].pc \in {"await_catalog", "sleep"}
            THEN catalog_cb'[InstOf(r)] = catalog_cb[InstOf(r)]
            ELSE catalog_cb'[InstOf(r)].failure_count
                   <= catalog_cb[InstOf(r)].failure_count + 1
     /\ (au.pc \in {"verify", "sleep"} /\ au' # au) =>
          IF au'.pc \in {"verify", "sleep"}
          THEN au'.cb = au.cb
          ELSE au'.cb.failure_count <= au.cb.failure_count + 1]_vars

\* Both lookups have failed on every attempt, once each.
C25_Witness ==
  /\ rq[1].pc = "idle"
  /\ rq[1].res = "503"
  /\ nreq = 1
  /\ depFailRun[1] = MaxAttempts
  /\ catalog_cb[1].failure_count = 1
  /\ au.pc = "idle"
  /\ au.calls = 1
  /\ au.token = "forged"
  /\ au.res.code = 401
  /\ au.cb.failure_count = 1

\* The maximum delay of the call: config.max_delay where the config has
\* one, the repository's max_delay where it has none.
MaximumDelay == IF rt.impl = "shared" THEN rt.max_delay ELSE RetryMaxDelay

\* base_delay * 2^k capped at the maximum delay, in delay units.
CappedDelay(k) == Min(rt.base_delay * Pow(2, k), MaximumDelay) * DelayUnit

\* The attempts made so far that raised.
Failed == {k \in 1..Len(rt.outcomes) : rt.outcomes[k] = "failed"}

\* C26 (as claimed): the sleep before retry number k is at most
\* base_delay * 2^k capped at the maximum delay and at least half of it, and
\* a call that raised after its last attempt has slept once per failed
\* attempt but the last.
C26_SleepIsCappedBackoff ==
  /\ \A n \in 1..Len(rt.slept) :
       /\ rt.slept[n] <= CappedDelay(n - 1)
       /\ 2 * rt.slept[n] >= CappedDelay(n - 1)
  /\ Len(rt.slept) <= Cardinality(Failed)
  /\ (rt.pc = "done" /\ rt.how = "raised" /\ rt.max_attempts >= 1) =>
       Len(rt.slept) = rt.max_attempts - 1

\* C26 for retry_async of shared/circuit_breaker.py.
C26_HoldsForShared ==
  rt.impl = "shared" => C26_SleepIsCappedBackoff

\* ---------------------------------------------------- claims: dispatching
\* The handler a published event type is meant for.
HandlerFor(name) ==
  IF name = "BOOKING_CREATED" THEN "created" ELSE "cancelled"

\* C27 (as claimed): process_booking_event hands every BOOKING_CREATED
\* event of the topic to handle_booking_created and every BOOKING_CANCELLED
\* event to handle_booking_cancelled, and the booking id the handler reads
\* from the event is the one that was published.
C27_DispatchedByType ==
  /\ [][(/\ wk.pc = "process"
         /\ wk' # wk
         /\ wk'.restarts = wk.restarts
         /\ booking_events[wk.cur].type
              \in {"BOOKING_CREATED", "BOOKING_CANCELLED"})
        => /\ wk'.pc = "mail"
           /\ wk'.kind = HandlerFor(booking_events[wk.cur].type)]_vars
  /\ [](\A k \in 1..Len(booking_events) :
          booking_events[k].type \in {"BOOKING_CREATED", "BOOKING_CANCELLED"}
          => event_get(wire_event(booking_events[k]), "booking_id")
               = booking_events[k].id)

\* ------------------------------------------------------- claims: ordering
\* C28 (as claimed): on the booking-events topic, which the worker consumes
\* in order, the BOOKING_CANCELLED event of a booking comes after the
\* BOOKING_CREATED event of that booking.
C28_CreatedBeforeCancelled ==
  \A k \in 1..Len(booking_events) :
    booking_events[k].type = "BOOKING_CANCELLED" =>
      \E j \in 1..(k - 1) :
        booking_events[j] =
          [type |-> "BOOKING_CREATED", id |-> booking_events[k].id]

\* --------------------------------------------------- claims: independence
\* C29 (as claimed): a step of a booking request for one event leaves the
\* counter of every other event as it was, and a request for an event is
\* turned away by the open breaker only after failures of lookups for that
\* same event, as many as open a breaker.
C29_ResourcesIndependent ==
  /\ [][\A e \in Resources :
          (mr' # mr /\ mr'.event # e) =>
            mr'.reserved[e] = mr.reserved[e]]_vars
  /\ [](mr.res.cause = "breaker_open" =>
          mr.fails[mr.event] >= mr.cb.failure_threshold)

\* C29, the counters alone.
C29_CountersIndependent ==
  [][\A e \in Resources :
       (mr' # mr /\ mr'.event # e) =>
         mr'.reserved[e] = mr.reserved[e]]_vars

\* ------------------------------------------------------- claims: registry
\* C30: every breaker object of the process is the entry of its name, so no
\* name has two; a call of get_circuit_breaker returns the entry of the
\* name; a call for a name that has an entry returns that same object and
\* leaves every object, its thresholds included, as it was; and no step
\* changes the thresholds of an object.
C30_OneBreakerPerName ==
  /\ [](\A i \in 1..Len(reg.objects) :
          reg.registry[reg.objects[i].name] = i)
  /\ [](reg.ret # 0 => reg.ret = reg.registry[reg.name])
  /\ [][/\ (reg'.calls # reg.calls /\ reg.registry[reg'.name] # 0) =>
             /\ reg'.ret = reg.registry[reg'.name]
             /\ reg'.objects = reg.objects
             /\ reg'.registry = reg.registry
        /\ \A i \in 1..Len(reg.objects) :
             /\ reg'.objects[i].cb.failure_threshold
                  = reg.objects[i].cb.failure_threshold
             /\ reg'.objects[i].cb.success_threshold
                  = reg.objects[i].cb.success_threshold
             /\ reg'.objects[i].cb.timeout = reg.objects[i].cb.timeout]_vars

\* The breaker of a name was obtained with one threshold, has counted a
\* failure, and a later call with another threshold has returned it as it is.
C30_Witness ==
  /\ reg.calls >= 2
  /\ reg.ret = 1
  /\ Len(reg.objects) = 1
  /\ reg.objects[1].cb.failure_threshold # reg.threshold
  /\ reg.objects[1].cb.failure_count > 0

\* ------------------------------------------------ claims: permanent open
\* C31: from a breaker whose failure_count has reached max_failures, a step
\* other than reset() leaves the breaker open and invokes nothing.
C31_PermanentlyOpen ==
  [][(cb.failure_count >= cb.max_failures /\ cb.state = "open") =>
       \/ ev'.kind = "reset"
       \/ (cb'.state = "open" /\ invoked' = invoked)]_vars

\* The weaker half: with failure_count at max_failures the breaker is never
\* closed, whatever the calls in between (this one the code does not keep
\* either: success_threshold trial successes close it).
C31_NeverClosedAtMaximum ==
  [][(cb.failure_count >= cb.max_failures /\ cb'.state = "closed") =>
       ev'.kind = "reset"]_vars

\* ------------------------------------------- claims: client-side rejection
\* The causes of a response that the client's request alone decides.
ClientRejections == {"not_found", "already_cancelled"}

\* C32: a step in which cancel_booking answers that the booking is not found
\* or is already cancelled, or in which the catalog lookup answers 404,
\* leaves failure_count and state of the breaker it ran inside as they were.
C32_RejectionSparesBreaker ==
  [][\A p \in Instances :
       /\ (en'[p] # en[p] /\ en[p].pc = "idle"
             /\ en'[p].res.cause \in ClientRejections) =>
            /\ en'[p].db.failure_count = en[p].db.failure_count
            /\ en'[p].db.state = en[p].db.state
       /\ (en[p].pc = "lookup" /\ en'[p].res.code = 404) =>
            /\ en'[p].catalog.failure_count = en[p].catalog.failure_count
            /\ en'[p].catalog.state = en[p].catalog.state]_vars

\* What the rejections add up to: after failure_threshold cancellations of
\* bookings that do not exist, the booking-db breaker is open and the next
\* request of the process is refused for it.
C32_RejectionsOpenBreaker ==
  \E p \in Instances :
    /\ en[p].res.cause = "db_open"
    /\ en[p].db.failed_calls > en[p].db.failure_threshold
    /\ bookings = <<>>

\* --------------------------------------------- claims: leaving open
\* C33: a call that completes, with a success or a failure, while the
\* breaker is open leaves it open; the breaker leaves open only at the entry
\* of a call whose recovery-time test passes.
C33_CompletionKeepsOpen ==
  [][/\ (cb.state = "open" /\ ev'.kind \in {"success", "failure"}) =>
          cb'.state = "open"
     /\ (cb.state = "open" /\ cb'.state # "open" /\ ev'.kind # "reset") =>
          /\ ev'.kind = "admit"
          /\ should_attempt_reset(impl, cb, now)]_vars

\* The same for the breaker of booking/app/main.py and the payment one.
C33_HoldsForSimpleAndPayment ==
  [][(impl # "shared" /\ cb.state = "open" /\ cb'.state # "open"
        /\ ev'.kind # "reset") =>
       /\ ev'.kind = "admit"
       /\ should_attempt_reset(impl, cb, now)]_vars

C35_PaidIsConfirmed ==
  pay.pc = "idle" =>
    \A i \in 1..Len(pay.payments) :
      (/\ pay.payments[i].status = "completed"
       /\ pay.payments[i].booking_id \in 1..Len(bookings)) =>
        bookings[pay.payments[i].booking_id].status = "confirmed"

\* ---------------------------------------------- claims: counters and state
\* C36: a closed breaker has counted fewer failures than its
\* failure_threshold, and success_count is zero unless the breaker is
\* half_open, where it is below success_threshold.
C36_CountersFitState ==
  /\ cb.failure_threshold >= 1
  /\ cb.state = "closed" => cb.failure_count < cb.failure_threshold
  /\ cb.success_count # 0 =>
       /\ cb.state = "half_open"
       /\ cb.success_count < cb.success_threshold

\* A payment breaker that had successful calls, then opened, is half_open
\* and has counted a trial success short of closing.
C36_Witness ==
  /\ cb.state = "half_open"
  /\ cb.success_count > 0
  /\ cb.failure_count >= cb.failure_threshold
  /\ cb.successful_calls > cb.success_count

\* A closed breaker that has counted failures short of the threshold.
C36_ClosedWithFailures ==
  /\ cb.state = "closed"
  /\ cb.failure_count = cb.failure_threshold - 1
  /\ impl = "shared"

\* C37: an open breaker has a last_failure_time.
C37_OpenHasFailureTime ==
  cb.state = "open" => cb.last_failure_time # None

\* A payment breaker that reset() had closed, with its last_failure_time
\* cleared, has been opened again by the failures that followed.
C37_Witness ==
  /\ impl = "payment"
  /\ cb.state = "open"
  /\ cb.circuit_opens >= 2
  /\ ev.kind = "failure"
  /\ ev.pre.state = "closed"

\* ------------------------------------------------------- claims: metrics
\* C38: while no call is inside the breaker, every call counted in
\* total_calls is counted in successful_calls or in failed_calls.
C38_MetricsAddUp ==
  (\A c \in Callers : cpc[c] = "idle") =>
    cb.total_calls = cb.successful_calls + cb.failed_calls

\* ---------------------------------------------------- claims: rate limit
\* C39: between rate_limit_check calls, a counter key that exists has an
\* expiry.
C39_CounterHasExpiry ==
  (rl.pc = "idle" /\ rl.value # None) => rl.expiry # None

\* What follows from a counter without expiry: the client has exceeded
\* max_requests_per_window, more than a window has passed since its first
\* request, and it is still refused.
C39_RefusedAfterWindow ==
  /\ rl.pc = "idle"
  /\ rl.res = 429
  /\ rl.expiry = None
  /\ now > 1 + RateLimitWindow

====
